---- MODULE Spec2Model ----
(***************************************************************************)
(* A model of the brace library: the Base16 / Base32 / Base64 codecs, the  *)
(* incremental hash framework (MD5, SHA-1, SHA-2) and the array-backed     *)
(* binary stream the hashers read from.                                    *)
(*                                                                         *)
(* Characters and bytes are natural numbers (ASCII codes, 0..255).  C++    *)
(* arrays indexed from 0 are sequences indexed from 1, so a[i] in the      *)
(* source is a[i + 1] here.                                                *)
(***************************************************************************)
EXTENDS Integers, Sequences, FiniteSets, TLC

\* ------------------------------------------------------------------ bounds
\* Longest byte sequence handed to an encoder.
MaxBytes == 5
\* Largest wrap column handed to an encoder.
MaxWrap == 3
\* Longest text handed to a Base16 decoder.
MaxText16 == 4
\* Longest text handed to a Base32 / Base32Hex decoder.
MaxText32 == 16
\* Longest text handed to a Base64 / Base64Url decoder.
MaxText64 == 6
\* Most '\n' characters in a text handed to a Base32 decoder.
MaxNewlines == 1
\* Size of the array behind the BinOStream a decoder writes to.
OutCap == 8
\* Bytes one hash object absorbs in all, messages hashed on one object, and
\* do_hash calls per message.
MaxAbsorb == 194
MaxMessages == 2
MaxCalls == 2
\* Calls made on a stream before it is hashed.
MaxStreamOps == 3
\* Longest byte sequence encoded to a std::ostream.
MaxEncBytes == 6
\* Most characters a std::ostream accepts before a put fails.
MaxSinkCap == 5
\* Calls made on one BinArrayStream.
MaxIoOps == 4

\* --------------------------------------------------------------- bit helpers
RECURSIVE BitAnd(_, _)
BitAnd(a, b) ==
    IF a = 0 \/ b = 0 THEN 0
    ELSE (a % 2) * (b % 2) + 2 * BitAnd(a \div 2, b \div 2)

RECURSIVE BitOr(_, _)
BitOr(a, b) ==
    IF a = 0 THEN b
    ELSE IF b = 0 THEN a
    ELSE (IF a % 2 = 1 \/ b % 2 = 1 THEN 1 ELSE 0) + 2 * BitOr(a \div 2, b \div 2)

Shl(a, n) == a * (2 ^ n)

Shr(a, n) == a \div (2 ^ n)

\* static_cast<uint8_t>
U8(a) == a % 256

\* size_t: subtraction wraps around.  SizeModulus stands for 2^64, which is
\* beyond the integers of the model; it is far above every length and
\* position that occurs.
SizeModulus == 1073741824

SizeSub(a, b) == (a - b + SizeModulus) % SizeModulus

\* ---------------------------------------------------------------- characters
NL == 10
Pad == 61

Chr0 == 48
Chr2 == 50
Chr7 == 55
Chr9 == 57
ChrA == 65
ChrF == 70
ChrV == 86
ChrZ == 90
ChrLa == 97
ChrLz == 122

\* ------------------------------------------------------------ array streams

\* A BinArrayStream over an array of cap bytes: BinArrayStreamImpl's cursors,
\* putback slot (-1 when empty) and _state_bits, BinIos's _state_bits and
\* BinIStream's _gcount.  State bits are sets over {"eof", "fail", "bad"}.
ArrayStream(arr) ==
    [arr |-> arr, read_cur |-> 0, write_cur |-> 0, pb |-> -1,
     impl_bits |-> {}, bits |-> {}, gcount |-> 0]

Zeros(n) == [i \in 1..n |-> 0]

\* BinIos::good()
Good(st) == st.bits = {}

\* BinIos::fail(); operator bool is its negation.
Fail(st) == st.bits \cap {"fail", "bad"} # {}

\* BinArrayStreamImpl::write followed by the rest of BinOStream::write.
\* Returns the stream and the count written.
StreamWrite(st, s) ==
    LET count == Len(s)
        over == st.write_cur + count >= Len(st.arr)
        n == IF over THEN Len(st.arr) - st.write_cur ELSE count
        ib == IF over THEN st.impl_bits \cup {"eof", "fail"} ELSE st.impl_bits
        arr2 == [i \in 1..Len(st.arr) |->
                    IF i > st.write_cur /\ i <= st.write_cur + n
                    THEN s[i - st.write_cur] ELSE st.arr[i]]
        anybits == (IF "eof" \in ib THEN {"eof"} ELSE {}) \cup
                   (IF "fail" \in ib THEN {"fail"} ELSE {})
    IN IF count <= 0 THEN [st |-> st, rv |-> 0]
       ELSE [st |-> [st EXCEPT !.arr = arr2, !.write_cur = st.write_cur + n,
                               !.impl_bits = ib,
                               !.bits = IF n < count THEN st.bits \cup anybits ELSE st.bits],
             rv |-> n]

\* The bytes an output stream holds so far.
Written(st) == SubSeq(st.arr, 1, st.write_cur)

\* BinArrayStreamImpl::put followed by the rest of BinOStream::put, which
\* tests the byte it was handed, never the result, against eof(): a byte is
\* 0..255 and eof() is -1, so set_any_error_bits() is not reached.  Returns
\* the stream and the int_type result (-1 for traits_type::eof()).
StreamPut(st, b) ==
    LET room == st.write_cur < Len(st.arr)
        st2 == IF room
               THEN [st EXCEPT !.arr[st.write_cur + 1] = b, !.write_cur = @ + 1]
               ELSE [st EXCEPT !.impl_bits = @ \cup {"eof", "fail"}]
        rv == IF room THEN b ELSE -1
        anybits == (IF "eof" \in st2.impl_bits THEN {"eof"} ELSE {}) \cup
                   (IF "fail" \in st2.impl_bits THEN {"fail"} ELSE {})
    IN [st |-> IF b = -1 THEN [st2 EXCEPT !.bits = @ \cup anybits] ELSE st2,
        rv |-> rv]

\* out_func of the decode overloads of Base16 and Base32Base, on the locals d
\* of do_decode: push_back on the vector, or put on the stream, a count of
\* the bytes put and outstream.good() as the result.  A false result makes
\* do_decode return false (status "stopped").
DecPush(d, b) ==
    IF ~d.tostream THEN [d EXCEPT !.out = Append(@, b)]
    ELSE LET p == StreamPut(d.os, b)
         IN [d EXCEPT !.os = p.st,
                      !.written = IF p.rv = b THEN @ + 1 ELSE @,
                      !.status = IF Good(p.st) THEN @ ELSE "stopped"]

\* for (...) if (!out_func(b)) return false;
RECURSIVE DecPushAll(_, _, _)
DecPushAll(d, bytes, i) ==
    IF i > Len(bytes) \/ d.status # "run" THEN d
    ELSE DecPushAll(DecPush(d, bytes[i]), bytes, i + 1)


\* ===================================================================== Base16

Alphabet16 == <<48, 49, 50, 51, 52, 53, 54, 55, 56, 57, 65, 66, 67, 68, 69, 70>>

IsValid16(ch) ==
    \/ (ch >= Chr0 /\ ch <= Chr9)
    \/ (ch >= ChrA /\ ch <= ChrF)

\* The sink an encoder writes to (a std::string or a std::ostream) and the
\* encoder's bookkeeping: the characters the sink holds, whether the last
\* push succeeded (for a stream: whether it is good()), the column counter
\* of the wrapping lambda, how many characters the sink accepts before it
\* rejects (-1: it never rejects, as the std::string sinks), chars_written,
\* and how often out_func and in_func have been called.
NewSink(cap) ==
    [out |-> <<>>, ok |-> TRUE, pos |-> 0, cap |-> cap, written |-> 0,
     calls |-> 0, reads |-> 0]

\* outstream.put(ch) (rv.push_back(ch) for a string)
OsPut(s, ch) ==
    IF s.ok /\ (s.cap < 0 \/ Len(s.out) < s.cap)
    THEN [s EXCEPT !.out = Append(@, ch), !.calls = @ + 1]
    ELSE [s EXCEPT !.ok = FALSE, !.calls = @ + 1]

\* out_func(ch): if (outstream.put(ch).good()) ++chars_written;
\* return outstream.good();
OutFunc(s, ch) ==
    LET r == OsPut(s, ch)
    IN IF r.ok THEN [r EXCEPT !.written = @ + 1] ELSE r

\* The `output` lambda with a column counter that is never set back to 0.
OutputWrapsOnce(s, ch, wrapat) ==
    IF ~s.ok THEN s
    ELSE LET r == OutFunc(s, ch) IN
         IF ~r.ok THEN r
         ELSE IF wrapat # 0
              THEN IF r.pos + 1 = wrapat
                   THEN [OutFunc(r, NL) EXCEPT !.pos = r.pos + 1]
                   ELSE [r EXCEPT !.pos = r.pos + 1]
              ELSE r

\* The `output` lambda called again although a push has failed.
OutputGoesOn(s, ch, wrapat) ==
    LET r == OutFunc(s, ch) IN
    IF wrapat # 0
    THEN IF r.pos + 1 = wrapat
         THEN [OutFunc(r, NL) EXCEPT !.pos = 0]
         ELSE [r EXCEPT !.pos = r.pos + 1]
    ELSE r

\* The `output` lambda of do_encode: push ch, then a newline when the column
\* counter reaches wrapat.  Once a push has failed do_encode returns, so a
\* failed sink is left alone.
Output(s, ch, wrapat) ==
    IF ~s.ok THEN s
    ELSE LET r == OutFunc(s, ch) IN
         IF ~r.ok THEN r
         ELSE IF wrapat # 0
              THEN IF r.pos + 1 = wrapat
                   THEN [OutFunc(r, NL) EXCEPT !.pos = 0]
                   ELSE [r EXCEPT !.pos = r.pos + 1]
              ELSE r

RECURSIVE Encode16Loop(_, _, _, _)
Encode16Loop(bytes, i, s, wrapat) ==
    IF ~s.ok THEN s
    ELSE IF i > Len(bytes) THEN [s EXCEPT !.reads = @ + 1]
    ELSE LET byte == bytes[i]
             n1 == U8(BitAnd(Shr(byte, 4), 15))
             n2 == U8(BitAnd(byte, 15))
             s1 == Output([s EXCEPT !.reads = @ + 1], Alphabet16[n1 + 1], wrapat)
             s2 == Output(s1, Alphabet16[n2 + 1], wrapat)
         IN Encode16Loop(bytes, i + 1, s2, wrapat)

\* Base16::do_encode over an iterator range, into a sink of capacity cap.
DoEncode16(bytes, wrapat, cap) == Encode16Loop(bytes, 1, NewSink(cap), wrapat)

RECURSIVE GetIndex16From(_, _)
GetIndex16From(ch, i) ==
    IF i >= 16 THEN -1
    ELSE IF Alphabet16[i + 1] = ch THEN i
    ELSE GetIndex16From(ch, i + 1)

GetIndex16(ch) == GetIndex16From(ch, 0)

\* The locals of Base16::do_decode, the bytes pushed to out_func, and how the
\* call ended: "run" (still in the loop), "ok" (returned true), "error" (a
\* BasicParseError with line, pos and msg).
Dec16Init ==
    [duo |-> <<0, 0>>, duo_pos |-> 0, line |-> 1, pos |-> 1,
     out |-> <<>>, tostream |-> FALSE, os |-> ArrayStream(<<>>), written |-> 0,
     status |-> "run", msg |-> ""]

\* The same at the start of a decode overload that writes to outstream.
Dec16InitOs(os) == [Dec16Init EXCEPT !.tostream = TRUE, !.os = os]

\* Base16::do_decode with a handled newline that also forgets the first
\* digit of a pair.
Dec16StepNewlineDropsDigit(d, ch, handle_newline) ==
    IF IsValid16(ch)
    THEN LET duo == [d.duo EXCEPT ![d.duo_pos + 1] = ch] IN
         IF d.duo_pos + 1 = 2
         THEN LET byte == U8(BitOr(Shl(GetIndex16(duo[1]), 4),
                                   BitAnd(GetIndex16(duo[2]), 15)))
                  e == DecPush([d EXCEPT !.duo = duo], byte)
              IN IF e.status # "run" THEN [e EXCEPT !.duo_pos = 2]
                 ELSE [e EXCEPT !.duo_pos = 0]
         ELSE [d EXCEPT !.duo = duo, !.duo_pos = d.duo_pos + 1]
    ELSE IF ch = NL /\ handle_newline
    THEN [d EXCEPT !.line = @ + 1, !.pos = 0, !.duo_pos = 0]
    ELSE [d EXCEPT !.status = "error", !.msg = "Invalid character"]

\* One pass through the body of the while loop of Base16::do_decode.
Dec16Step(d, ch, handle_newline) ==
    IF IsValid16(ch)
    THEN LET duo == [d.duo EXCEPT ![d.duo_pos + 1] = ch] IN
         IF d.duo_pos + 1 = 2
         THEN LET byte == U8(BitOr(Shl(GetIndex16(duo[1]), 4),
                                   BitAnd(GetIndex16(duo[2]), 15)))
                  e == DecPush([d EXCEPT !.duo = duo], byte)
              IN IF e.status # "run" THEN [e EXCEPT !.duo_pos = 2]
                 ELSE [e EXCEPT !.duo_pos = 0]
         ELSE [d EXCEPT !.duo = duo, !.duo_pos = d.duo_pos + 1]
    ELSE IF ch = NL /\ handle_newline
    THEN [d EXCEPT !.line = @ + 1, !.pos = 0]
    ELSE [d EXCEPT !.status = "error", !.msg = "Invalid character"]

Dec16EndNoLengthCheck(d) == [d EXCEPT !.status = "ok"]

\* The code after the loop of Base16::do_decode.
Dec16End(d) ==
    IF d.duo_pos # 0
    THEN [d EXCEPT !.status = "error", !.msg = "Length error"]
    ELSE [d EXCEPT !.status = "ok"]

RECURSIVE Dec16Loop(_, _, _, _)
Dec16Loop(text, i, d, handle_newline) ==
    IF d.status # "run" THEN d
    ELSE IF i > Len(text) THEN Dec16End(d)
    ELSE Dec16Loop(text, i + 1, Dec16Step(d, text[i], handle_newline), handle_newline)

\* Base16::decode(string_view, handle_newline)
Decode16(text, handle_newline) == Dec16Loop(text, 1, Dec16Init, handle_newline)

\* ===================================================================== Base32

Alphabet32 ==
    <<65, 66, 67, 68, 69, 70, 71, 72, 73, 74, 75, 76, 77, 78, 79, 80,
      81, 82, 83, 84, 85, 86, 87, 88, 89, 90, 50, 51, 52, 53, 54, 55>>

Alphabet32Hex ==
    <<48, 49, 50, 51, 52, 53, 54, 55, 56, 57, 65, 66, 67, 68, 69, 70,
      71, 72, 73, 74, 75, 76, 77, 78, 79, 80, 81, 82, 83, 84, 85, 86>>

\* decode_table[ch] is DecodeTable32[ch + 1]
DecodeTable32 ==
    <<100, 100, 100, 100, 100, 100, 100, 100, 100, 100, 100, 100, 100, 100, 100, 100,
      100, 100, 100, 100, 100, 100, 100, 100, 100, 100, 100, 100, 100, 100, 100, 100,
      100, 100, 100, 100, 100, 100, 100, 100, 100, 100, 100, 100, 100, 100, 100, 100,
      100, 100,  26,  27,  28,  29,  30,  31, 100, 100, 100, 100, 100, 100, 100, 100,
      100,   0,   1,   2,   3,   4,   5,   6,   7,   8,   9,  10,  11,  12,  13,  14,
       15,  16,  17,  18,  19,  20,  21,  22,  23,  24,  25, 100, 100, 100, 100, 100,
      100, 100, 100, 100, 100, 100, 100, 100, 100, 100, 100, 100, 100, 100, 100, 100,
      100, 100, 100, 100, 100, 100, 100, 100, 100, 100, 100, 100, 100, 100, 100, 100>>

DecodeTable32Hex ==
    <<100, 100, 100, 100, 100, 100, 100, 100, 100, 100, 100, 100, 100, 100, 100, 100,
      100, 100, 100, 100, 100, 100, 100, 100, 100, 100, 100, 100, 100, 100, 100, 100,
      100, 100, 100, 100, 100, 100, 100, 100, 100, 100, 100, 100, 100, 100, 100, 100,
        0,   1,   2,   3,   4,   5,   6,   7,   8,   9, 100, 100, 100, 100, 100, 100,
      100,  10,  11,  12,  13,  14,  15,  16,  17,  18,  19,  20,  21,  22,  23,  24,
       25,  26,  27,  28,  29,  30,  31, 100, 100, 100, 100, 100, 100, 100, 100, 100,
      100, 100, 100, 100, 100, 100, 100, 100, 100, 100, 100, 100, 100, 100, 100, 100,
      100, 100, 100, 100, 100, 100, 100, 100, 100, 100, 100, 100, 100, 100, 100, 100>>

\* is_valid_character accepting every digit.
IsValid32AnyDigit(codec, ch) ==
    IF codec = "Base32"
    THEN (ch >= ChrA /\ ch <= ChrZ) \/ (ch >= Chr0 /\ ch <= Chr9)
    ELSE (ch >= Chr0 /\ ch <= Chr9) \/ (ch >= ChrA /\ ch <= ChrV)

\* The virtual alphabet() / decode_table() / is_valid_character() of the two
\* classes derived from Base32Base; codec is "Base32" or "Base32Hex".
Alphabet32Of(codec) == IF codec = "Base32" THEN Alphabet32 ELSE Alphabet32Hex

DecodeTable32Of(codec) == IF codec = "Base32" THEN DecodeTable32 ELSE DecodeTable32Hex

IsValid32(codec, ch) ==
    IF codec = "Base32"
    THEN (ch >= ChrA /\ ch <= ChrZ) \/ (ch >= Chr2 /\ ch <= Chr7)
    ELSE (ch >= Chr0 /\ ch <= Chr9) \/ (ch >= ChrA /\ ch <= ChrV)

\* Base32Base::decode_eights.  The 64-bit `hold` is kept as two 20-bit halves
\* (hold = hi * 2^20 + lo): the table values of the characters that reach this
\* function are below 32, so no symbol's bits overlap another's.
DecodeEights(codec, str) ==
    LET table == DecodeTable32Of(codec)
        hi == BitOr(BitOr(Shl(table[str[1] + 1], 15), Shl(table[str[2] + 1], 10)),
                    BitOr(Shl(table[str[3] + 1], 5), table[str[4] + 1]))
        lo == BitOr(BitOr(Shl(table[str[5] + 1], 15), Shl(table[str[6] + 1], 10)),
                    BitOr(Shl(table[str[7] + 1], 5), table[str[8] + 1]))
        byte4 == BitAnd(Shr(hi, 12), 255)
        byte3 == BitAnd(Shr(hi, 4), 255)
        byte2 == BitAnd(BitOr(Shl(BitAnd(hi, 15), 4), Shr(lo, 16)), 255)
        byte1 == BitAnd(Shr(lo, 8), 255)
        byte0 == BitAnd(lo, 255)
    IN <<byte4, byte3, byte2, byte1, byte0>>

\* The eight output calls of a full five-byte group.
Encode32Group(a, bytes, s, w) ==
    LET s1 == Output(s, a[BitAnd(Shr(bytes[1], 3), 31) + 1], w)
        s2 == Output(s1, a[BitOr(Shl(BitAnd(bytes[1], 7), 2), Shr(BitAnd(bytes[2], 192), 6)) + 1], w)
        s3 == Output(s2, a[Shr(BitAnd(bytes[2], 62), 1) + 1], w)
        s4 == Output(s3, a[BitOr(Shl(BitAnd(bytes[2], 1), 4), Shr(BitAnd(bytes[3], 240), 4)) + 1], w)
        s5 == Output(s4, a[BitOr(Shl(BitAnd(bytes[3], 15), 1), Shr(BitAnd(bytes[4], 128), 7)) + 1], w)
        s6 == Output(s5, a[Shr(BitAnd(bytes[4], 124), 2) + 1], w)
        s7 == Output(s6, a[BitOr(Shl(BitAnd(bytes[4], 3), 3), Shr(BitAnd(bytes[5], 224), 5)) + 1], w)
    IN Output(s7, a[BitAnd(bytes[5], 31) + 1], w)

RECURSIVE OutputPads(_, _, _)
OutputPads(s, n, w) == IF n = 0 THEN s ELSE OutputPads(Output(s, Pad, w), n - 1, w)

\* The switch (bytes_pos) after the loop of Base32Base::do_encode.
Encode32Tail(a, bytes, bytes_pos, s, w) ==
    CASE bytes_pos = 4 ->
           LET s1 == Output(s, a[BitAnd(Shr(bytes[1], 3), 31) + 1], w)
               s2 == Output(s1, a[BitOr(Shl(BitAnd(bytes[1], 7), 2), Shr(BitAnd(bytes[2], 192), 6)) + 1], w)
               s3 == Output(s2, a[Shr(BitAnd(bytes[2], 62), 1) + 1], w)
               s4 == Output(s3, a[BitOr(Shl(BitAnd(bytes[2], 1), 4), Shr(BitAnd(bytes[3], 240), 4)) + 1], w)
               s5 == Output(s4, a[BitOr(Shl(BitAnd(bytes[3], 15), 1), Shr(BitAnd(bytes[4], 128), 7)) + 1], w)
               s6 == Output(s5, a[Shr(BitAnd(bytes[4], 124), 2) + 1], w)
               s7 == Output(s6, a[Shl(BitAnd(bytes[4], 3), 3) + 1], w)
           IN OutputPads(s7, 1, w)
      [] bytes_pos = 3 ->
           LET s1 == Output(s, a[BitAnd(Shr(bytes[1], 3), 31) + 1], w)
               s2 == Output(s1, a[BitOr(Shl(BitAnd(bytes[1], 7), 2), Shr(BitAnd(bytes[2], 192), 6)) + 1], w)
               s3 == Output(s2, a[Shr(BitAnd(bytes[2], 62), 1) + 1], w)
               s4 == Output(s3, a[BitOr(Shl(BitAnd(bytes[2], 1), 4), Shr(BitAnd(bytes[3], 240), 4)) + 1], w)
               s5 == Output(s4, a[Shl(BitAnd(bytes[3], 15), 1) + 1], w)
           IN OutputPads(s5, 3, w)
      [] bytes_pos = 2 ->
           LET s1 == Output(s, a[BitAnd(Shr(bytes[1], 3), 31) + 1], w)
               s2 == Output(s1, a[BitOr(Shl(BitAnd(bytes[1], 7), 2), Shr(BitAnd(bytes[2], 192), 6)) + 1], w)
               s3 == Output(s2, a[Shr(BitAnd(bytes[2], 62), 1) + 1], w)
               s4 == Output(s3, a[Shl(BitAnd(bytes[2], 1), 4) + 1], w)
           IN OutputPads(s4, 4, w)
      [] bytes_pos = 1 ->
           LET s1 == Output(s, a[BitAnd(Shr(bytes[1], 3), 31) + 1], w)
               s2 == Output(s1, a[Shl(BitAnd(bytes[1], 7), 2) + 1], w)
           IN OutputPads(s2, 6, w)
      [] OTHER -> s

\* The while loop of Base32Base::do_encode: e holds the locals bytes and
\* bytes_pos and the sink.
RECURSIVE Encode32Loop(_, _, _, _, _)
Encode32Loop(a, input, i, e, w) ==
    IF ~e.s.ok THEN e
    ELSE IF i > Len(input) THEN [e EXCEPT !.s.reads = @ + 1]
    ELSE LET bytes == [e.bytes EXCEPT ![e.bytes_pos + 1] = input[i]]
             s == [e.s EXCEPT !.reads = @ + 1] IN
         IF e.bytes_pos + 1 = 5
         THEN Encode32Loop(a, input, i + 1,
                  [bytes |-> bytes, bytes_pos |-> 0, s |-> Encode32Group(a, bytes, s, w)], w)
         ELSE Encode32Loop(a, input, i + 1,
                  [bytes |-> bytes, bytes_pos |-> e.bytes_pos + 1, s |-> s], w)

\* Base32Base::do_encode over an iterator range, into a sink of capacity cap.
DoEncode32(codec, input, wrapat, cap) ==
    LET a == Alphabet32Of(codec)
        e == Encode32Loop(a, input, 1,
                 [bytes |-> <<0, 0, 0, 0, 0>>, bytes_pos |-> 0, s |-> NewSink(cap)], wrapat)
    IN IF ~e.s.ok THEN e.s ELSE Encode32Tail(a, e.bytes, e.bytes_pos, e.s, wrapat)


\* The locals of Base32Base::do_decode, the bytes pushed to out_func, and how
\* the call ended ("run", "ok", or "error" with line, pos and msg).
Dec32Init ==
    [eights |-> <<0, 0, 0, 0, 0, 0, 0, 0>>, eights_pos |-> 0, line |-> 1, pos |-> 1,
     pad_count |-> 0, out |-> <<>>, tostream |-> FALSE, os |-> ArrayStream(<<>>),
     written |-> 0, status |-> "run", msg |-> ""]

\* The same at the start of a decode overload that writes to outstream.
Dec32InitOs(os) == [Dec32Init EXCEPT !.tostream = TRUE, !.os = os]

\* The loop body with the column left running across a handled newline.
Dec32StepColumnRunsOn(codec, d, ch, handle_newline) ==
    IF IsValid32(codec, ch)
    THEN IF d.pad_count # 0
         THEN [d EXCEPT !.status = "error", !.msg = "Invalid character"]
         ELSE LET eights == [d.eights EXCEPT ![d.eights_pos + 1] = ch] IN
              IF d.eights_pos + 1 = 8
              THEN LET e == DecPushAll([d EXCEPT !.eights = eights],
                                       DecodeEights(codec, eights), 1)
                   IN IF e.status # "run" THEN [e EXCEPT !.eights_pos = 8]
                      ELSE [e EXCEPT !.eights_pos = 0, !.pos = @ + 1]
              ELSE [d EXCEPT !.eights = eights, !.eights_pos = @ + 1, !.pos = @ + 1]
    ELSE IF ch = NL /\ handle_newline
    THEN [d EXCEPT !.line = @ + 1, !.pos = @ + 1]
    ELSE IF ch = Pad
    THEN IF d.pad_count + 1 <= 6
         THEN [d EXCEPT !.pad_count = @ + 1, !.pos = @ + 1]
         ELSE [d EXCEPT !.pad_count = @ + 1, !.status = "error", !.msg = "Invalid character"]
    ELSE [d EXCEPT !.status = "error", !.msg = "Invalid character"]

\* One pass through the body of the while loop of Base32Base::do_decode,
\* the ++pos that ends it included.
Dec32Step(codec, d, ch, handle_newline) ==
    IF IsValid32(codec, ch)
    THEN IF d.pad_count # 0
         THEN [d EXCEPT !.status = "error", !.msg = "Invalid character"]
         ELSE LET eights == [d.eights EXCEPT ![d.eights_pos + 1] = ch] IN
              IF d.eights_pos + 1 = 8
              THEN LET e == DecPushAll([d EXCEPT !.eights = eights],
                                       DecodeEights(codec, eights), 1)
                   IN IF e.status # "run" THEN [e EXCEPT !.eights_pos = 8]
                      ELSE [e EXCEPT !.eights_pos = 0, !.pos = @ + 1]
              ELSE [d EXCEPT !.eights = eights, !.eights_pos = @ + 1, !.pos = @ + 1]
    ELSE IF ch = NL /\ handle_newline
    THEN [d EXCEPT !.line = @ + 1, !.pos = 1]
    ELSE IF ch = Pad
    THEN IF d.pad_count + 1 <= 6
         THEN [d EXCEPT !.pad_count = @ + 1, !.pos = @ + 1]
         ELSE [d EXCEPT !.pad_count = @ + 1, !.status = "error", !.msg = "Invalid character"]
    ELSE [d EXCEPT !.status = "error", !.msg = "Invalid character"]

\* How many bytes the switch (eights_pos) after the loop pushes.
PartialBytes32(eights_pos) ==
    CASE eights_pos = 2 -> 1
      [] eights_pos \in {3, 4} -> 2
      [] eights_pos = 5 -> 3
      [] eights_pos \in {6, 7} -> 4
      [] OTHER -> 0

\* The code after the loop of Base32Base::do_decode: the unused places of the
\* group are set to 'A', the group is decoded and its leading bytes pushed.
Dec32End(codec, d) ==
    IF d.eights_pos # 0
    THEN LET s == [i \in 1..8 |-> IF i > d.eights_pos THEN ChrA ELSE d.eights[i]]
             bytes == DecodeEights(codec, s)
             e == DecPushAll(d, SubSeq(bytes, 1, PartialBytes32(d.eights_pos)), 1)
         IN IF e.status # "run" THEN e ELSE [e EXCEPT !.status = "ok"]
    ELSE [d EXCEPT !.status = "ok"]

RECURSIVE Dec32Loop(_, _, _, _, _)
Dec32Loop(codec, text, i, d, handle_newline) ==
    IF d.status # "run" THEN d
    ELSE IF i > Len(text) THEN Dec32End(codec, d)
    ELSE Dec32Loop(codec, text, i + 1, Dec32Step(codec, d, text[i], handle_newline),
                   handle_newline)

\* Base32Base::decode(string_view, handle_newline)
Decode32(codec, text, handle_newline) == Dec32Loop(codec, text, 1, Dec32Init, handle_newline)


\* ===================================================================== Base64

Alphabet64 ==
    <<65, 66, 67, 68, 69, 70, 71, 72, 73, 74, 75, 76, 77, 78, 79, 80,
      81, 82, 83, 84, 85, 86, 87, 88, 89, 90, 97, 98, 99, 100, 101, 102,
      103, 104, 105, 106, 107, 108, 109, 110, 111, 112, 113, 114, 115, 116, 117, 118,
      119, 120, 121, 122, 48, 49, 50, 51, 52, 53, 54, 55, 56, 57, 43, 47>>

Alphabet64Url ==
    <<65, 66, 67, 68, 69, 70, 71, 72, 73, 74, 75, 76, 77, 78, 79, 80,
      81, 82, 83, 84, 85, 86, 87, 88, 89, 90, 97, 98, 99, 100, 101, 102,
      103, 104, 105, 106, 107, 108, 109, 110, 111, 112, 113, 114, 115, 116, 117, 118,
      119, 120, 121, 122, 48, 49, 50, 51, 52, 53, 54, 55, 56, 57, 45, 95>>

DecodeTable64 ==
    <<100, 100, 100, 100, 100, 100, 100, 100, 100, 100, 100, 100, 100, 100, 100, 100,
      100, 100, 100, 100, 100, 100, 100, 100, 100, 100, 100, 100, 100, 100, 100, 100,
      100, 100, 100, 100, 100, 100, 100, 100, 100, 100, 100,  62, 100, 100, 100,  63,
       52,  53,  54,  55,  56,  57,  58,  59,  60,  61, 100, 100, 100, 100, 100, 100,
      100,   0,   1,   2,   3,   4,   5,   6,   7,   8,   9,  10,  11,  12,  13,  14,
       15,  16,  17,  18,  19,  20,  21,  22,  23,  24,  25, 100, 100, 100, 100, 100,
      100,  26,  27,  28,  29,  30,  31,  32,  33,  34,  35,  36,  37,  38,  39,  40,
       41,  42,  43,  44,  45,  46,  47,  48,  49,  50,  51, 100, 100, 100, 100, 100>>

DecodeTable64Url ==
    <<100, 100, 100, 100, 100, 100, 100, 100, 100, 100, 100, 100, 100, 100, 100, 100,
      100, 100, 100, 100, 100, 100, 100, 100, 100, 100, 100, 100, 100, 100, 100, 100,
      100, 100, 100, 100, 100, 100, 100, 100, 100, 100, 100, 100, 100,  62, 100, 100,
       52,  53,  54,  55,  56,  57,  58,  59,  60,  61, 100, 100, 100, 100, 100, 100,
      100,   0,   1,   2,   3,   4,   5,   6,   7,   8,   9,  10,  11,  12,  13,  14,
       15,  16,  17,  18,  19,  20,  21,  22,  23,  24,  25, 100, 100, 100, 100,  63,
      100,  26,  27,  28,  29,  30,  31,  32,  33,  34,  35,  36,  37,  38,  39,  40,
       41,  42,  43,  44,  45,  46,  47,  48,  49,  50,  51, 100, 100, 100, 100, 100>>

\* The virtual alphabet() / decode_table() of Base64 and Base64Url.
Alphabet64Of(codec) == IF codec = "Base64" THEN Alphabet64 ELSE Alphabet64Url

DecodeTable64Of(codec) == IF codec = "Base64" THEN DecodeTable64 ELSE DecodeTable64Url

\* Base64Base::is_valid_character(ch, alphabet)
IsValid64(codec, ch) ==
    \/ (ch >= ChrA /\ ch <= ChrZ)
    \/ (ch >= ChrLa /\ ch <= ChrLz)
    \/ (ch >= Chr0 /\ ch <= Chr9)
    \/ ch = Alphabet64Of(codec)[63]
    \/ ch = Alphabet64Of(codec)[64]

NoError == [line |-> 0, pos |-> 0, msg |-> ""]

\* The position all_of stops at in validate_str: the lambda counts every
\* character it is called on, the first invalid one included.
RECURSIVE AllOfPos(_, _, _, _)
AllOfPos(codec, str, i, last) ==
    IF i > last THEN [ok |-> TRUE, pos |-> i - 1]
    ELSE IF IsValid64(codec, str[i]) THEN AllOfPos(codec, str, i + 1, last)
    ELSE [ok |-> FALSE, pos |-> i]

\* Base64Base::validate_str: NoError stands for std::nullopt.
ValidateStr(codec, str) ==
    LET size == Len(str)
        scan == AllOfPos(codec, str, 1, size - 2)
        last == str[size]
        nlast == str[size - 1]
    IN IF size % 4 # 0
       THEN [line |-> 0, pos |-> size, msg |-> "Invalid length"]
       ELSE IF ~scan.ok
       THEN [line |-> 0, pos |-> scan.pos, msg |-> "Invalid character"]
       ELSE IF ~IsValid64(codec, nlast) /\ ~(nlast = Pad /\ last = Pad)
       THEN [line |-> 0, pos |-> size + (IF nlast = Pad THEN -1 ELSE -2),
             msg |-> "Invalid character"]
       ELSE IF IsValid64(codec, last) \/ last = Pad
       THEN NoError
       ELSE [line |-> 0, pos |-> size - 1, msg |-> "Invalid character"]

\* Base64Base::decode_quad
DecodeQuad(a, b, c, d, table) ==
    LET hold == BitOr(BitOr(Shl(table[a + 1], 18), Shl(table[b + 1], 12)),
                      BitOr(Shl(table[c + 1], 6), table[d + 1]))
    IN <<BitAnd(Shr(hold, 16), 255), BitAnd(Shr(hold, 8), 255), BitAnd(hold, 255)>>

RECURSIVE PureQuads(_, _, _, _)
PureQuads(str, i, full_quads, table) ==
    IF i >= full_quads THEN <<>>
    ELSE DecodeQuad(str[4 * i + 1], str[4 * i + 2], str[4 * i + 3], str[4 * i + 4], table)
         \o PureQuads(str, i + 1, full_quads, table)

\* Base64Base::decode_pure(str, decode_table): the bytes of the returned vector.
DecodePure(codec, str) ==
    LET table == DecodeTable64Of(codec)
        full_quads == Len(str) \div 4 - 1
        q == SubSeq(str, full_quads * 4 + 1, full_quads * 4 + 4)
    IN PureQuads(str, 0, full_quads, table) \o
       (IF q[3] = Pad
        THEN SubSeq(DecodeQuad(q[1], q[2], ChrA, ChrA, table), 1, 1)
        ELSE IF q[4] = Pad
        THEN SubSeq(DecodeQuad(q[1], q[2], q[3], ChrA, table), 1, 2)
        ELSE DecodeQuad(q[1], q[2], q[3], q[4], table))


\* ---------------------------------------------------- Base64 char-wise decoders

\* Locals of decode_impure and of the istream overloads of do_decode at loop
\* entry.  out is the returned vector; os is the output stream of the
\* BinOStream overloads and written their bytes_written.  A size_t that
\* wrapped below zero is kept as the negative number it is congruent to.
Dec64Init(os) ==
    [quads |-> <<>>, pad1 |-> FALSE, pad2 |-> FALSE, line |-> 1, pos |-> 1,
     out |-> <<>>, os |-> os, written |-> 0, status |-> "run", err |-> NoError]

Dec64Error(d, pos, msg) ==
    [d EXCEPT !.status = "error", !.err = [line |-> d.line, pos |-> pos, msg |-> msg]]

\* Emits n decoded bytes: push_back on the vector, or outstream.write and
\* the early return of bytes_written when the write came up short.
Dec64Emit(d, bytes, tostream) ==
    IF ~tostream THEN [d EXCEPT !.out = d.out \o bytes]
    ELSE LET w == StreamWrite(d.os, bytes)
         IN [d EXCEPT !.os = w.st, !.written = d.written + w.rv,
                      !.status = IF w.rv # Len(bytes) THEN "short" ELSE d.status]

\* decode_impure where a newline clears pad1 and pad2.
Dec64StepNewlineForgetsPad(codec, d, ch, skip_newline, tostream) ==
    LET table == DecodeTable64Of(codec)
        q == Append(d.quads, ch)
        e == Dec64Emit(d, DecodeQuad(q[1], q[2], q[3], q[4], table), tostream)
    IN IF IsValid64(codec, ch)
       THEN IF d.pad1 \/ d.pad2
            THEN Dec64Error(d, SizeSub(d.pos, IF d.pad2 THEN 2 ELSE 1), "Invalid character")
            ELSE IF Len(q) = 4
            THEN IF e.status = "short" THEN e
                 ELSE [e EXCEPT !.quads = <<>>, !.pos = d.pos + 1]
            ELSE [d EXCEPT !.quads = q, !.pos = d.pos + 1]
       ELSE IF ch = NL
       THEN IF skip_newline
            THEN [d EXCEPT !.line = d.line + 1, !.pos = 1, !.pad1 = FALSE, !.pad2 = FALSE]
            ELSE Dec64Error(d, d.pos, "Invalid character")
       ELSE IF ch = Pad
       THEN IF d.pad1
            THEN IF ~d.pad2 THEN [d EXCEPT !.pad2 = TRUE, !.pos = d.pos + 1]
                 ELSE Dec64Error(d, d.pos, "Invalid character")
            ELSE [d EXCEPT !.pad1 = TRUE, !.pos = d.pos + 1]
       ELSE Dec64Error(d, d.pos, "Invalid character")

\* One iteration of the character loop.  skip_newline is TRUE in
\* decode_impure and ignore_newline in the istream overloads.
Dec64Step(codec, d, ch, skip_newline, tostream) ==
    LET table == DecodeTable64Of(codec)
        q == Append(d.quads, ch)
        e == Dec64Emit(d, DecodeQuad(q[1], q[2], q[3], q[4], table), tostream)
    IN IF IsValid64(codec, ch)
       THEN IF d.pad1 \/ d.pad2
            THEN Dec64Error(d, SizeSub(d.pos, IF d.pad2 THEN 2 ELSE 1), "Invalid character")
            ELSE IF Len(q) = 4
            THEN IF e.status = "short" THEN e
                 ELSE [e EXCEPT !.quads = <<>>, !.pos = d.pos + 1]
            ELSE [d EXCEPT !.quads = q, !.pos = d.pos + 1]
       ELSE IF ch = NL
       THEN IF skip_newline
            THEN [d EXCEPT !.line = d.line + 1, !.pos = 1]
            ELSE Dec64Error(d, d.pos, "Invalid character")
       ELSE IF ch = Pad
       THEN IF d.pad1
            THEN IF ~d.pad2 THEN [d EXCEPT !.pad2 = TRUE, !.pos = d.pos + 1]
                 ELSE Dec64Error(d, d.pos, "Invalid character")
            ELSE [d EXCEPT !.pad1 = TRUE, !.pos = d.pos + 1]
       ELSE Dec64Error(d, d.pos, "Invalid character")

Dec64EndNoCheck(codec, d, tostream) == [d EXCEPT !.status = "ok"]

\* The code after the character loop: the check of quad_pos and padding.
Dec64End(codec, d, tostream) ==
    LET table == DecodeTable64Of(codec)
        quad_pos == Len(d.quads)
        done(x) == IF x.status = "short" THEN x ELSE [x EXCEPT !.status = "ok"]
    IN IF tostream /\ ~Good(d.os) THEN done(d)
       ELSE IF quad_pos # 0
       THEN IF quad_pos = 3 /\ d.pad1 /\ ~d.pad2
            THEN done(Dec64Emit(d, SubSeq(DecodeQuad(d.quads[1], d.quads[2], d.quads[3], ChrA, table), 1, 2), tostream))
            ELSE IF quad_pos = 2 /\ d.pad1 /\ d.pad2
            THEN done(Dec64Emit(d, SubSeq(DecodeQuad(d.quads[1], d.quads[2], ChrA, ChrA, table), 1, 1), tostream))
            ELSE Dec64Error(d, d.pos, "Invalid length or padding")
       ELSE done(d)

RECURSIVE Dec64Loop(_, _, _, _, _, _)
Dec64Loop(codec, d, text, i, skip_newline, tostream) ==
    IF i > Len(text) \/ d.status # "run" THEN d
    ELSE Dec64Loop(codec, Dec64Step(codec, d, text[i], skip_newline, tostream),
                   text, i + 1, skip_newline, tostream)

\* decode_impure(str, ...) returning a vector.
DecodeImpure(codec, str) ==
    LET d == Dec64Loop(codec, Dec64Init(ArrayStream(<<>>)), str, 1, TRUE, FALSE)
    IN IF d.status = "run" THEN Dec64End(codec, d, FALSE) ELSE d

\* do_decode(string_view, alphabet, decode_table, ignore_newline)
DoDecode64(codec, str, ignore_newline) ==
    LET d0 == Dec64Init(ArrayStream(<<>>))
        v == ValidateStr(codec, str)
    IN IF Len(str) = 0 THEN [d0 EXCEPT !.status = "ok"]
       ELSE IF ~ignore_newline
       THEN IF v # NoError THEN [d0 EXCEPT !.status = "error", !.err = v]
            ELSE [d0 EXCEPT !.status = "ok", !.out = DecodePure(codec, str)]
       ELSE DecodeImpure(codec, str)


\* ------------------------------------------------------------ Base64 encoder

\* A full group whose first symbol is taken from the low six bits of the
\* first byte.
Encode64GroupLowBits(a, b1, b2, b3) ==
    << a[BitAnd(b1, 63) + 1],
       a[BitOr(Shl(BitAnd(b1, 3), 4), Shr(BitAnd(b2, 240), 4)) + 1],
       a[BitOr(Shl(BitAnd(b2, 15), 2), Shr(BitAnd(b3, 192), 6)) + 1],
       a[BitAnd(b3, 63) + 1] >>

\* The body of the for loop of do_encode: one full group of three bytes.
Encode64Group(a, b1, b2, b3) ==
    << a[BitAnd(Shr(b1, 2), 63) + 1],
       a[BitOr(Shl(BitAnd(b1, 3), 4), Shr(BitAnd(b2, 240), 4)) + 1],
       a[BitOr(Shl(BitAnd(b2, 15), 2), Shr(BitAnd(b3, 192), 6)) + 1],
       a[BitAnd(b3, 63) + 1] >>

RECURSIVE Encode64Loop(_, _, _, _)
Encode64Loop(a, input, i, rv) ==
    IF i < Len(input) - 2
    THEN Encode64Loop(a, input, i + 3,
                      rv \o Encode64Group(a, input[i + 1], input[i + 2], input[i + 3]))
    ELSE [i |-> i, rv |-> rv]

\* The tail of do_encode with a single '=' in both cases.
Encode64TailOnePad(a, input, i, rv) ==
    IF i >= Len(input) THEN rv
    ELSE IF i = Len(input) - 1
    THEN rv \o << a[BitAnd(Shr(input[i + 1], 2), 63) + 1],
                  a[Shl(BitAnd(input[i + 1], 3), 4) + 1], Pad >>
    ELSE rv \o << a[BitAnd(Shr(input[i + 1], 2), 63) + 1],
                  a[BitOr(Shl(BitAnd(input[i + 1], 3), 4),
                          Shr(BitAnd(input[i + 2], 240), 4)) + 1],
                  a[Shl(BitAnd(input[i + 2], 15), 2) + 1], Pad >>

\* The if (i < in_size) tail of do_encode: one or two bytes left.
Encode64Tail(a, input, i, rv) ==
    IF i >= Len(input) THEN rv
    ELSE IF i = Len(input) - 1
    THEN rv \o << a[BitAnd(Shr(input[i + 1], 2), 63) + 1],
                  a[Shl(BitAnd(input[i + 1], 3), 4) + 1], Pad, Pad >>
    ELSE rv \o << a[BitAnd(Shr(input[i + 1], 2), 63) + 1],
                  a[BitOr(Shl(BitAnd(input[i + 1], 3), 4),
                          Shr(BitAnd(input[i + 2], 240), 4)) + 1],
                  a[Shl(BitAnd(input[i + 2], 15), 2) + 1], Pad >>

\* Base64Base::do_encode(input, input_end, alphabet) returning a string.
DoEncode64(codec, input) ==
    LET a == Alphabet64Of(codec)
        l == IF Len(input) > 1 THEN Encode64Loop(a, input, 0, <<>>)
             ELSE [i |-> 0, rv |-> <<>>]
    IN Encode64Tail(a, input, l.i, l.rv)


\* decode_pure(str, outstream, decode_table): the quads are written one by
\* one and the first short write ends the call.
RECURSIVE PureQuadsOs(_, _, _, _)
PureQuadsOs(codec, d, str, i) ==
    LET table == DecodeTable64Of(codec)
        full_quads == Len(str) \div 4 - 1
        q == SubSeq(str, 4 * i + 1, 4 * i + 4)
        n == IF i < full_quads THEN 3 ELSE IF q[3] = Pad THEN 1 ELSE IF q[4] = Pad THEN 2 ELSE 3
        bytes == DecodeQuad(q[1], q[2], IF n < 2 THEN ChrA ELSE q[3],
                            IF n < 3 THEN ChrA ELSE q[4], table)
        e == Dec64Emit(d, SubSeq(bytes, 1, n), TRUE)
    IN IF e.status = "short" THEN e
       ELSE IF i < full_quads THEN PureQuadsOs(codec, e, str, i + 1)
       ELSE [e EXCEPT !.status = "ok"]

\* do_decode(string_view, BinOStream &, alphabet, decode_table, ignore_newline)
DoDecode64Os(codec, str, os, ignore_newline) ==
    LET d0 == Dec64Init(os)
        v == ValidateStr(codec, str)
        d == Dec64Loop(codec, d0, str, 1, TRUE, TRUE)
    IN IF Len(str) = 0 THEN [d0 EXCEPT !.status = "ok"]
       ELSE IF ~ignore_newline
       THEN IF v # NoError THEN [d0 EXCEPT !.status = "error", !.err = v]
            ELSE PureQuadsOs(codec, d0, str, 0)
       ELSE IF d.status = "run" THEN Dec64End(codec, d, TRUE) ELSE d

\* ===================================================================== hashes

\* Unsigned integers of 32 bits and more are kept as little-endian
\* sequences of 16-bit limbs; arithmetic wraps at the width of the sequence,
\* as the unsigned type it stands for.
RECURSIVE LAddAt(_, _, _)
LAddAt(x, i, k) ==
    IF k = 0 \/ i > Len(x) THEN x
    ELSE LET t == x[i] + k
         IN LAddAt([x EXCEPT ![i] = t % 65536], i + 1, t \div 65536)

LAdd(x, k) == LAddAt(x, 1, k)

LZero(n) == [i \in 1..n |-> 0]

LIsZero(x) == \A i \in 1..Len(x) : x[i] = 0

\* x < v for a 32-bit x (two limbs) and a small v.
LLess32(x, v) ==
    \/ x[2] < v \div 65536
    \/ (x[2] = v \div 65536 /\ x[1] < v % 65536)

\* Byte i (0 = least significant) of a limb sequence.
LByte(x, i) == (x[(i \div 2) + 1] \div (IF i % 2 = 1 THEN 256 ELSE 1)) % 256

HashAlgs == {"MD5", "SHA1", "SHA224", "SHA256", "SHA384", "SHA512"}

\* message_block_size of MD5, SHA1, sha2_32 (64) and sha2_64 (128).
BlockSize(alg) == IF alg \in {"SHA384", "SHA512"} THEN 128 ELSE 64

\* Limbs in each half of the length counter: HashLength<uint32_t> for SHA1
\* and sha2_32, HashLength<uint64_t> for sha2_64, uint4 _count[2] for MD5.
HalfLimbs(alg) == IF alg \in {"SHA384", "SHA512"} THEN 4 ELSE 2

\* The compression functions (transform, process_message_block) are kept
\* uninterpreted: _state is the sequence of blocks compressed since the
\* initial values were loaded, and two states are equal exactly when the same
\* blocks were compressed in the same order.

\* reset() of the SHA classes (initialize() for the SHA-2 ones).
ShaReset(alg) ==
    [alg |-> alg, state |-> <<>>, index |-> 0,
     length |-> [high |-> LZero(HalfLimbs(alg)), low |-> LZero(HalfLimbs(alg))],
     block |-> Zeros(BlockSize(alg)), status |-> "ready"]

\* HashLength::operator++: thrown tells whether std::range_error was raised.
HashLengthInc(l) ==
    LET low == LAdd(l.low, 8)
        high == IF LIsZero(low) THEN LAdd(l.high, 1) ELSE l.high
    IN [high |-> high, low |-> low, thrown |-> LIsZero(low) /\ LIsZero(high)]

\* process_message_block()
ShaProcess(h) == [h EXCEPT !.state = Append(@, h.block), !.index = 0]

\* One pass through the while loop of do_hash.
ShaByte(h, b) ==
    LET l == HashLengthInc(h.length)
        h1 == [h EXCEPT !.block[h.index + 1] = BitAnd(b, 255), !.index = @ + 1,
                        !.length = [high |-> l.high, low |-> l.low]]
    IN IF l.thrown THEN [h1 EXCEPT !.status = "thrown"]
       ELSE IF h1.index = BlockSize(h.alg) THEN ShaProcess(h1)
       ELSE h1

\* The while loop of do_hash over input[i..last], byte after byte until the
\* end or the exception; the bytes are taken as a first and a second half to
\* keep the evaluation shallow.
RECURSIVE ShaBytes(_, _, _, _)
ShaBytes(h, input, i, last) ==
    IF i > last \/ h.status # "ready" THEN h
    ELSE IF i = last THEN ShaByte(h, input[i])
    ELSE LET mid == (i + last) \div 2
         IN ShaBytes(ShaBytes(h, input, i, mid), input, mid + 1, last)

\* The loop of do_hash from input[i] on.  While the low half of the length is
\* more than 2^16 bits away from wrapping, no pass of the loop can throw, and
\* what the passes leave behind is written down at once: the blocks that were
\* filled and compressed, the bytes of the unfinished block over what the
\* buffer held before, and the length advanced by eight bits a byte.
ShaStretches(h, input, i) ==
    LET n == Len(input) - i + 1
        B == BlockSize(h.alg)
        nb == (h.index + n) \div B
        byteAt(g) == IF g < h.index THEN h.block[g + 1]
                     ELSE input[i + g - h.index] % 256
        filled(k) == [p \in 1..B |-> byteAt((k - 1) * B + p - 1)]
    IN IF n <= 0 \/ h.status # "ready" THEN h
       ELSE IF h.length.low[HalfLimbs(h.alg)] < 65535 /\ 8 * n < 65536
       THEN [h EXCEPT !.state = @ \o [k \in 1..nb |-> filled(k)],
                      !.index = (h.index + n) % B,
                      !.block = [p \in 1..B |->
                                    IF p <= (h.index + n) % B
                                    THEN byteAt(nb * B + p - 1)
                                    ELSE IF nb = 0 THEN h.block[p]
                                    ELSE byteAt((nb - 1) * B + p - 1)],
                      !.length.low = LAdd(@, 8 * n)]
       ELSE ShaBytes(h, input, i, Len(input))

ShaDoHashRestart(h, input) == ShaStretches([h EXCEPT !.index = 0], input, 1)

\* SHA1 / sha2_32 / sha2_64 ::do_hash(input, length)
ShaDoHash(h, input) == ShaStretches(h, input, 1)

\* pad_message() where the padding spills only past the threshold.
ShaPadMessageLateSpill(h) ==
    LET B == BlockSize(h.alg)
        L == 4 * HalfLimbs(h.alg)
        n == HalfLimbs(h.alg) * 2
        two == h.index > B - L
        first == [i \in 1..B |-> IF i <= h.index THEN h.block[i]
                                 ELSE IF i = h.index + 1 THEN 128 ELSE 0]
        h1 == IF two THEN ShaProcess([h EXCEPT !.block = first]) ELSE h
        body == IF two THEN h1.block ELSE first
        idx == IF two THEN 0 ELSE h.index + 1
        final == [i \in 1..B |->
                    IF i <= idx THEN body[i]
                    ELSE IF i <= B - L THEN 0
                    ELSE IF i <= B - L + n THEN LByte(h.length.high, n - (i - (B - L)))
                    ELSE LByte(h.length.low, n - (i - (B - L + n)))]
    IN ShaProcess([h1 EXCEPT !.block = final])

\* pad_message(): L is the size of the length field, 8 or 16 bytes.
ShaPadMessage(h) ==
    LET B == BlockSize(h.alg)
        L == 4 * HalfLimbs(h.alg)
        n == HalfLimbs(h.alg) * 2
        two == h.index >= B - L
        first == [i \in 1..B |-> IF i <= h.index THEN h.block[i]
                                 ELSE IF i = h.index + 1 THEN 128 ELSE 0]
        h1 == IF two THEN ShaProcess([h EXCEPT !.block = first]) ELSE h
        body == IF two THEN h1.block ELSE first
        idx == IF two THEN 0 ELSE h.index + 1
        final == [i \in 1..B |->
                    IF i <= idx THEN body[i]
                    ELSE IF i <= B - L THEN 0
                    ELSE IF i <= B - L + n THEN LByte(h.length.high, n - (i - (B - L)))
                    ELSE LByte(h.length.low, n - (i - (B - L + n)))]
    IN ShaProcess([h1 EXCEPT !.block = final])

\* finalize_hash() of the SHA classes: pad, take the digest from _state,
\* reset().
ShaFinalize(h) ==
    LET p == ShaPadMessage(h)
    IN [h |-> ShaReset(h.alg), digest |-> <<h.alg, p.state>>]


\* MD5::reset() on a newly constructed object (the buffer and the digest are
\* not read before they are written).
Md5Reset ==
    [alg |-> "MD5", state |-> <<>>, finalized |-> FALSE,
     count |-> <<LZero(2), LZero(2)>>, buffer |-> Zeros(64), digest |-> <<>>,
     status |-> "ready"]

\* The for loop of MD5::do_hash: transform(&input[i]) on every whole block.
Md5Blocks(state, input, i) ==
    LET nb == IF i + 64 <= Len(input) THEN (Len(input) - i) \div 64 ELSE 0
    IN [state |-> state \o [k \in 1..nb |->
                               SubSeq(input, i + 64 * (k - 1) + 1, i + 64 * k)],
        i |-> i + 64 * nb]

\* MD5::do_hash(input, length)
Md5DoHash(h, input) ==
    LET length == Len(input)
        index == (h.count[1][1] \div 8) % 64
        c0 == LAdd(h.count[1], length * 8)
        c1 == LAdd(IF LLess32(c0, length * 8) THEN LAdd(h.count[2], 1) ELSE h.count[2],
                   length \div (2 ^ 29))
        firstpart == 64 - index
        filled == [j \in 1..64 |-> IF j > index /\ j <= index + firstpart
                                   THEN input[j - index] ELSE h.buffer[j]]
        r == Md5Blocks(Append(h.state, filled), input, firstpart)
        big == length >= firstpart
        buf == IF big THEN filled ELSE h.buffer
        idx == IF big THEN 0 ELSE index
        i == IF big THEN r.i ELSE 0
    IN [h EXCEPT !.count = <<c0, c1>>,
                 !.state = IF big THEN r.state ELSE h.state,
                 !.buffer = [j \in 1..64 |-> IF j > idx /\ j <= idx + (length - i)
                                             THEN input[i + j - idx] ELSE buf[j]]]

\* Stands for the zero blocks compressed while a long message was absorbed.
SkipMark == <<-1>>

\* Arithmetic on whole limb sequences, for lengths that do not fit a small
\* number: x + y and x < y for sequences of the same length, x << 3, and the
\* low 32 bits of x >> 29 for a 64-bit x.
RECURSIVE LAddLAt(_, _, _, _)
LAddLAt(x, y, i, carry) ==
    IF i > Len(x) THEN x
    ELSE LET t == x[i] + y[i] + carry
         IN LAddLAt([x EXCEPT ![i] = t % 65536], y, i + 1, t \div 65536)

LAddL(x, y) == LAddLAt(x, y, 1, 0)

RECURSIVE LLessLAt(_, _, _)
LLessLAt(x, y, i) ==
    IF i = 0 THEN FALSE
    ELSE IF x[i] # y[i] THEN x[i] < y[i]
    ELSE LLessLAt(x, y, i - 1)

LLessL(x, y) == LLessLAt(x, y, Len(x))

LShl3(x) ==
    [i \in 1..Len(x) |->
        ((x[i] * 8) % 65536) + (IF i > 1 THEN x[i - 1] \div 8192 ELSE 0)]

LShr29Low(x) ==
    << (x[2] \div 8192) + (x[3] % 8192) * 8, (x[3] \div 8192) + (x[4] % 8192) * 8 >>

\* "Update number of bits" of MD5::do_hash, for a length given as a size_t
\* of four limbs: length << 3 is a size_t, _count[0] is converted to it for
\* the comparison, and the sums wrap at the 32 bits of _count[0] and
\* _count[1].
Md5Count(count, length) ==
    LET shifted == LShl3(length)
        c0 == LAddL(count[1], <<shifted[1], shifted[2]>>)
        less == LLessL(<<c0[1], c0[2], 0, 0>>, shifted)
        c1 == IF less THEN LAdd(count[2], 1) ELSE count[2]
    IN <<c0, LAddL(c1, LShr29Low(length))>>

\* MD5::do_hash(input, length) on a run of zero bytes whose length is given
\* as a size_t of four limbs, a multiple of 64 below 2^32: the buffered
\* block is completed and compressed, the whole blocks of the run after it
\* (SkipMark stands for them), and the rest of the run is buffered.
Md5DoHashZeros(h, length) ==
    LET index == (h.count[1][1] \div 8) % 64
        filled == [j \in 1..64 |-> IF j > index THEN 0 ELSE h.buffer[j]]
    IN [h EXCEPT !.count = Md5Count(h.count, length),
                 !.state = h.state \o <<filled, SkipMark>>,
                 !.buffer = [j \in 1..64 |-> IF j <= index THEN 0 ELSE filled[j]]]

\* The first padLen bytes of the padding array of finalize_hash.
Md5Padding(padLen) == [j \in 1..padLen |-> IF j = 1 THEN 128 ELSE 0]

\* MD5::finalize_hash()
Md5Finalize(h) ==
    LET bits == [j \in 1..8 |-> IF j <= 4 THEN LByte(h.count[1], j - 1)
                                ELSE LByte(h.count[2], j - 5)]
        index == (h.count[1][1] \div 8) % 64
        padLen == IF index < 56 THEN 56 - index ELSE 120 - index
        h2 == Md5DoHash(Md5DoHash(h, Md5Padding(padLen)), bits)
        h3 == [h2 EXCEPT !.digest = <<"MD5", h2.state>>, !.buffer = Zeros(64),
                         !.count = <<LZero(2), LZero(2)>>, !.finalized = TRUE]
    IN IF ~h.finalized THEN [h |-> h3, digest |-> h3.digest]
       ELSE [h |-> h, digest |-> h.digest]

\* The constructors: each ends in reset().
HashNew(alg) == IF alg = "MD5" THEN Md5Reset ELSE ShaReset(alg)

\* The virtual do_hash.
DoHash(h, input) == IF h.alg = "MD5" THEN Md5DoHash(h, input) ELSE ShaDoHash(h, input)

\* The virtual finalize_hash: the object afterwards and the digest returned.
FinalizeHash(h) == IF h.alg = "MD5" THEN Md5Finalize(h) ELSE ShaFinalize(h)

\* compute_hash(buffer, length) on an object in state h.
ComputeHash(h, input) ==
    LET h1 == DoHash(h, input)
    IN IF h1.status = "ready" THEN FinalizeHash(h1)
       ELSE [h |-> h1, digest |-> <<>>]


\* ------------------------------------------------------- the digest as text

\* hash_size(): the argument each class hands to the HashAlgorithm constructor.
HashSize(alg) ==
    CASE alg = "MD5" -> 128
      [] alg = "SHA1" -> 160
      [] alg = "SHA224" -> 224
      [] alg = "SHA256" -> 256
      [] alg = "SHA384" -> 384
      [] OTHER -> 512

RECURSIVE BlockSum(_, _)
BlockSum(state, k) ==
    IF k > Len(state) THEN 0
    ELSE k * (state[k][1] + state[k][Len(state[k])] + 1) + BlockSum(state, k + 1)

\* Byte i of _state.  The chaining value is not computed; the byte is stood
\* for by a number that depends on the blocks compressed and on i.
StateByte(state, i) == (BlockSum(state, 1) * (i + 1) + 11 * i) % 256

\* The vector finalize_hash returns: 20 bytes for SHA1, hash_size() / 8 for
\* the SHA-2 classes, the 16 bytes of _digest for MD5.
DigestBytes(digest) ==
    LET alg == digest[1]
        nbytes == IF alg = "MD5" THEN 16 ELSE IF alg = "SHA1" THEN 20 ELSE HashSize(alg) \div 8
    IN [i \in 1..nbytes |-> StateByte(digest[2], i - 1)]

\* A hexadecimal digit as std::hex with std::uppercase writes it.
HexChar(n) == IF n < 10 THEN Chr0 + n ELSE ChrA + (n - 10)

\* The digits alone, as without std::setw(2).
HexFieldNoWidth(b, width, fill) ==
    IF b < 16 THEN <<HexChar(b)>> ELSE <<HexChar(b \div 16), HexChar(b % 16)>>

\* operator<< of an unsigned int below 256 under std::hex: its digits,
\* filled on the left with fill up to the field width.
HexField(b, width, fill) ==
    LET digits == IF b < 16 THEN <<HexChar(b)>> ELSE <<HexChar(b \div 16), HexChar(b % 16)>>
    IN [j \in 1..(width - Len(digits)) |-> fill] \o digits

\* hash_to_string(hash)
RECURSIVE HashToString(_)
HashToString(hash) ==
    IF hash = <<>> THEN <<>>
    ELSE HexField(hash[1], 2, Chr0) \o HashToString(SubSeq(hash, 2, Len(hash)))

\* compute_hash_string: hash_to_string of the vector compute_hash returned.
ComputeHashString(digest) == HashToString(DigestBytes(digest))


\* ---------------------------------------------------- hashing from a BinIStream

\* buf_size of the compute_hash overloads that read a stream.
ChunkSize == 4096

\* BinArrayStreamImpl::read followed by the rest of BinIStream::read.
\* Returns the stream and the bytes delivered.
StreamRead(st, count) ==
    LET haspb == st.pb >= 0
        c2 == IF haspb THEN count - 1 ELSE count
        p0 == st.read_cur + c2
        over == c2 > 0 /\ p0 > Len(st.arr)
        p == IF c2 <= 0 THEN st.read_cur ELSE IF over THEN Len(st.arr) ELSE p0
        data == (IF haspb THEN <<st.pb>> ELSE <<>>) \o SubSeq(st.arr, st.read_cur + 1, p)
        ib == IF over THEN st.impl_bits \cup {"eof", "fail"} ELSE st.impl_bits
        b1 == IF "fail" \in ib THEN st.bits \cup {"fail"} ELSE st.bits
        b2 == IF "eof" \in ib THEN b1 \cup {"eof", "fail"} ELSE b1
    IN IF count <= 0 THEN [st |-> [st EXCEPT !.gcount = 0], data |-> <<>>]
       ELSE [st |-> [st EXCEPT !.pb = -1, !.read_cur = p, !.impl_bits = ib,
                               !.bits = b2, !.gcount = Len(data)],
             data |-> data]

\* BinIos::clear()
StreamClear(st) == [st EXCEPT !.bits = {}]

\* seek(pos, cur) without the test against _start.
SeekNoFloor(st, pos) == IF pos > Len(st.arr) THEN Len(st.arr) ELSE pos

\* BinArrayStreamImpl::seek(pos, cur): the offset of the cursor after the call.
Seek(st, pos) ==
    IF pos > Len(st.arr) THEN Len(st.arr) ELSE IF pos < 0 THEN 0 ELSE pos

\* BinArrayStreamImpl::seek(off, dir, cur)
SeekDir(st, off, dir, cur) ==
    LET p == IF dir = "beg" THEN off
             ELSE IF dir = "cur" THEN cur + off
             ELSE Len(st.arr) + off
    IN IF p < 0 THEN 0 ELSE IF p > Len(st.arr) THEN Len(st.arr) ELSE p

\* BinIStream::seekg(pos)
StreamSeekg(st, pos) ==
    [st EXCEPT !.bits = @ \ {"eof"}, !.pb = -1, !.read_cur = Seek(st, pos)]

\* A compute_hash call in progress: the hash object, the stream, the bytes
\* handed to do_hash so far and the largest chunk among them.
HashCall(h0, st) == [h |-> h0, st |-> st, absorbed |-> <<>>, maxchunk |-> 0]

HashCallRead(c, count) ==
    LET r == StreamRead(c.st, count)
    IN [h |-> DoHash(c.h, r.data), st |-> r.st, absorbed |-> c.absorbed \o r.data,
        maxchunk |-> IF Len(r.data) > c.maxchunk THEN Len(r.data) ELSE c.maxchunk]

\* do { stream.read(buffer, buf_size); do_hash(buffer, gcount); } while (stream);
RECURSIVE HashStreamLoop(_)
HashStreamLoop(c) ==
    LET c2 == HashCallRead(c, ChunkSize)
    IN IF ~Fail(c2.st) THEN HashStreamLoop(c2) ELSE c2

\* while (length > 0) { if (!stream) break; read min(length, buf_size) ... }
RECURSIVE HashStreamLenLoop(_, _)
HashStreamLenLoop(c, length) ==
    IF length <= 0 \/ Fail(c.st) THEN c
    ELSE LET c2 == HashCallRead(c, IF length < ChunkSize THEN length ELSE ChunkSize)
         IN HashStreamLenLoop(c2, length - c2.st.gcount)


\* ================================================= encoding to a std::ostream

\* BinArrayStreamImpl::get followed by the rest of BinIStream::get.
StreamGet(st) ==
    IF st.pb >= 0
    THEN [st |-> [st EXCEPT !.pb = -1, !.gcount = 1], rv |-> st.pb]
    ELSE IF st.read_cur < Len(st.arr)
    THEN [st |-> [st EXCEPT !.read_cur = @ + 1, !.gcount = 1], rv |-> st.arr[st.read_cur + 1]]
    ELSE [st |-> [st EXCEPT !.impl_bits = @ \cup {"eof", "fail"},
                            !.bits = @ \cup {"eof", "fail"}, !.gcount = 0],
          rv |-> -1]

\* The bytes in_func hands to do_encode when the input is a BinIStream:
\* instream.get(b); return instream.good();
RECURSIVE InFuncBytes(_)
InFuncBytes(st) ==
    LET g == StreamGet(st)
    IN IF Good(g.st) THEN <<g.rv>> \o InFuncBytes(g.st) ELSE <<>>

\* if (!outstream.put(...).good()) return chars_written; for each character
\* of a group in turn.
RECURSIVE PutAll(_, _, _)
PutAll(s, chars, i) ==
    IF i > Len(chars) \/ ~s.ok THEN s ELSE PutAll(OsPut(s, chars[i]), chars, i + 1)

\* if (!outstream.put(...).good()) break; ++chars_written; for each character
\* of a group in turn.
RECURSIVE PutAllCounted(_, _, _)
PutAllCounted(s, chars, i) ==
    IF i > Len(chars) \/ ~s.ok THEN s ELSE PutAllCounted(OutFunc(s, chars[i]), chars, i + 1)

\* The four characters the iterator-to-stream do_encode puts for a full
\* group; the second one adds 1 to the first byte where the string version
\* reads the second byte.
Encode64OsGroup(a, b1, b2, b3) ==
    << a[BitAnd(Shr(b1, 2), 63) + 1],
       a[BitOr(Shl(BitAnd(b1, 3), 4), Shr(BitAnd(b1 + 1, 240), 4)) + 1],
       a[BitOr(Shl(BitAnd(b2, 15), 2), Shr(BitAnd(b3, 192), 6)) + 1],
       a[BitAnd(b3, 63) + 1] >>

RECURSIVE Encode64OsLoop(_, _, _, _)
Encode64OsLoop(a, input, i, s) ==
    IF i < Len(input) - 2 /\ s.ok
    THEN Encode64OsLoop(a, input, i + 3,
             PutAll(s, Encode64OsGroup(a, input[i + 1], input[i + 2], input[i + 3]), 1))
    ELSE [i |-> i, s |-> s]

\* Base64Base::do_encode(input, input_end, outstream, alphabet)
DoEncode64Os(codec, input, cap) ==
    LET a == Alphabet64Of(codec)
        l == IF Len(input) > 1 THEN Encode64OsLoop(a, input, 0, NewSink(cap))
             ELSE [i |-> 0, s |-> NewSink(cap)]
    IN PutAll(l.s, Encode64Tail(a, input, l.i, <<>>), 1)

\* The while loop of do_encode(instream, outstream, alphabet): three bytes
\* are read, and the four characters of what was read are put.
RECURSIVE Encode64StreamLoop(_, _, _)
Encode64StreamLoop(a, st, s) ==
    IF ~(Good(st) /\ s.ok) THEN s
    ELSE LET r == StreamRead(st, 3)
             incount == r.st.gcount
             chars == IF incount = 3 THEN Encode64Group(a, r.data[1], r.data[2], r.data[3])
                      ELSE Encode64Tail(a, r.data, 0, <<>>)
         IN IF incount = 0 THEN s
            ELSE Encode64StreamLoop(a, r.st, PutAllCounted(s, chars, 1))

\* Base64Base::do_encode(instream, outstream, alphabet)
DoEncode64StreamOs(codec, st, cap) ==
    Encode64StreamLoop(Alphabet64Of(codec), st, NewSink(cap))

\* The encode overloads that write to a std::ostream: "it_os" takes an
\* iterator range, "bis_os" a BinIStream over the same bytes.  The stream
\* accepts cap characters.  The result is the sink, whose written field is
\* the count the call returns.
EncodeOs(codec, overload, data, wrapat, cap) ==
    LET input == IF overload = "bis_os" THEN InFuncBytes(ArrayStream(data)) ELSE data
    IN IF codec \in {"Base16"} THEN DoEncode16(input, wrapat, cap)
       ELSE IF codec \in {"Base32", "Base32Hex"} THEN DoEncode32(codec, input, wrapat, cap)
       ELSE IF overload = "it_os" THEN DoEncode64Os(codec, data, cap)
       ELSE DoEncode64StreamOs(codec, ArrayStream(data), cap)


\* Base64Base::do_encode(instream, alphabet) returning a string: the same
\* reads, the characters pushed onto rv.
DoEncode64Stream(codec, st) ==
    Encode64StreamLoop(Alphabet64Of(codec), st, NewSink(-1)).out

\* encode(BinIStream &[, wrapat]) returning std::string.
EncodeStringStream(codec, data, wrapat) ==
    IF codec \in {"Base16"}
    THEN DoEncode16(InFuncBytes(ArrayStream(data)), wrapat, -1).out
    ELSE IF codec \in {"Base32", "Base32Hex"}
    THEN DoEncode32(codec, InFuncBytes(ArrayStream(data)), wrapat, -1).out
    ELSE DoEncode64Stream(codec, ArrayStream(data))

\* ------------------------------------------------------------- test vectors

\* "foobar": the words of the test tables are its prefixes.
Foobar == <<102, 111, 111, 98, 97, 114>>

\* test_data16: the encodings of "f", "fo", ... "foobar"
TestData16 ==
    << <<54, 54>>,
       <<54, 54, 54, 70>>,
       <<54, 54, 54, 70, 54, 70>>,
       <<54, 54, 54, 70, 54, 70, 54, 50>>,
       <<54, 54, 54, 70, 54, 70, 54, 50, 54, 49>>,
       <<54, 54, 54, 70, 54, 70, 54, 50, 54, 49, 55, 50>> >>

\* test_data32
TestData32 ==
    << <<77, 89, 61, 61, 61, 61, 61, 61>>,
       <<77, 90, 88, 81, 61, 61, 61, 61>>,
       <<77, 90, 88, 87, 54, 61, 61, 61>>,
       <<77, 90, 88, 87, 54, 89, 81, 61>>,
       <<77, 90, 88, 87, 54, 89, 84, 66>>,
       <<77, 90, 88, 87, 54, 89, 84, 66, 79, 73, 61, 61, 61, 61, 61, 61>> >>

\* test_data32hex
TestData32Hex ==
    << <<67, 79, 61, 61, 61, 61, 61, 61>>,
       <<67, 80, 78, 71, 61, 61, 61, 61>>,
       <<67, 80, 78, 77, 85, 61, 61, 61>>,
       <<67, 80, 78, 77, 85, 79, 71, 61>>,
       <<67, 80, 78, 77, 85, 79, 74, 49>>,
       <<67, 80, 78, 77, 85, 79, 74, 49, 69, 56, 61, 61, 61, 61, 61, 61>> >>

\* test_data64 and test_data64url, which agree on these words
TestData64 ==
    << <<90, 103, 61, 61>>,
       <<90, 109, 56, 61>>,
       <<90, 109, 57, 118>>,
       <<90, 109, 57, 118, 89, 103, 61, 61>>,
       <<90, 109, 57, 118, 89, 109, 69, 61>>,
       <<90, 109, 57, 118, 89, 109, 70, 121>> >>

TestData(codec) ==
    IF codec = "Base16" THEN TestData16
    ELSE IF codec = "Base32" THEN TestData32
    ELSE IF codec = "Base32Hex" THEN TestData32Hex
    ELSE TestData64

\* ============================================ values on a BinArrayStream

\* BinIStream::seekg(off, dir)
StreamSeekgDir(st, off, dir) ==
    [st EXCEPT !.bits = @ \ {"eof"}, !.pb = -1,
               !.read_cur = SeekDir(st, off, dir, st.read_cur)]

\* BinOStream::seekp(pos)
StreamSeekp(st, pos) ==
    [st EXCEPT !.bits = @ \ {"eof"}, !.pb = -1, !.write_cur = Seek(st, pos)]

\* BinOStream::seekp(off, dir)
StreamSeekpDir(st, off, dir) ==
    [st EXCEPT !.bits = @ \ {"eof"}, !.pb = -1,
               !.write_cur = SeekDir(st, off, dir, st.write_cur)]

\* BinIStream::peek over BinArrayStreamImpl::peek, whose set_eof() reaches
\* the implementation's bits only.
StreamPeek(st) ==
    LET s0 == [st EXCEPT !.gcount = 0]
    IN IF ~Good(st) THEN [st |-> s0, rv |-> -1]
       ELSE IF st.pb >= 0 THEN [st |-> s0, rv |-> st.pb]
       ELSE IF st.read_cur < Len(st.arr) THEN [st |-> s0, rv |-> st.arr[st.read_cur + 1]]
       ELSE [st |-> [s0 EXCEPT !.impl_bits = @ \cup {"eof", "fail"}], rv |-> -1]

\* BinIStream::putback over BinArrayStreamImpl::putback
StreamPutback(st, b) == [st EXCEPT !.bits = @ \ {"eof"}, !.pb = b, !.gcount = 0]

\* The while loop of BinArrayStreamImpl::ignore: the cursor, the bytes
\* ignored, what is left of count and whether the delimiter ended the call.
RECURSIVE IgnoreLoop(_, _, _, _, _)
IgnoreLoop(arr, cur, count, delim, n) ==
    IF cur < Len(arr) /\ count # 0
    THEN IF arr[cur + 1] = delim
         THEN [cur |-> cur + 1, n |-> n + 1, count |-> count - 1, hit |-> TRUE]
         ELSE IgnoreLoop(arr, cur + 1, count - 1, delim, n + 1)
    ELSE [cur |-> cur, n |-> n, count |-> IF cur < Len(arr) THEN count - 1 ELSE count,
          hit |-> FALSE]

\* BinArrayStreamImpl::ignore followed by the rest of BinIStream::ignore.
StreamIgnore(st, count, delim) ==
    LET haspb == st.pb >= 0
        l == IgnoreLoop(st.arr, st.read_cur, IF haspb THEN count - 1 ELSE count, delim,
                        IF haspb THEN 1 ELSE 0)
        seteof == ~l.hit /\ l.cur >= Len(st.arr) /\ l.count # 0
        ib == IF count > 0 /\ seteof THEN st.impl_bits \cup {"eof", "fail"} ELSE st.impl_bits
        b1 == IF "fail" \in ib THEN st.bits \cup {"fail"} ELSE st.bits
        b2 == IF "eof" \in ib THEN b1 \cup {"eof"} ELSE b1
    IN IF count <= 0 THEN [st EXCEPT !.bits = b2, !.gcount = 0]
       ELSE [st EXCEPT !.pb = -1, !.read_cur = l.cur, !.impl_bits = ib, !.bits = b2,
                       !.gcount = l.n]

\* byte_swap_sized<1> and byte_swap_sized<2>
ByteSwap(v, width) ==
    IF width = 1 THEN v
    ELSE BitOr(BitAnd(Shr(v, 8), 255), BitAnd(Shl(v, 8), 65280))

\* to_endian where BRACE_BYTE_ORDER is little-endian: to_little_endian
\* returns the value and to_big_endian swaps it.
ToEndian(endian, v, width) == IF endian = "little" THEN v ELSE ByteSwap(v, width)

\* The bytes of a value of the given width in memory, low byte first, and
\* the value a run of bytes in memory stands for.
ObjectBytes(v, width) == [i \in 1..width |-> (v \div (256 ^ (i - 1))) % 256]

RECURSIVE ObjectValue(_)
ObjectValue(bytes) ==
    IF bytes = <<>> THEN 0 ELSE bytes[1] + 256 * ObjectValue(Tail(bytes))

\* BinOStream::operator<<
StreamInsert(st, endian, v, width) ==
    IF Fail(st) THEN st
    ELSE StreamWrite(st, ObjectBytes(ToEndian(endian, v, width), width)).st

\* BinIStream::operator>>: the stream and the value of the variable
\* extracted into, -1 when the call left it as it was.
StreamExtract(st, endian, width) ==
    IF Fail(st) THEN [st |-> st, value |-> -1]
    ELSE LET r == StreamRead(st, width)
             v == ObjectValue(r.data \o Zeros(width - Len(r.data)))
         IN [st |-> r.st,
             value |-> IF Fail(r.st) THEN -1 ELSE ToEndian(endian, v, width)]

\* ================================================================ state machine

VARIABLES
    rt,     \* an encode-then-decode session
    dec,    \* a decode call fed one character at a time
    h,      \* a hash object
    hg,     \* what has been done with the hash object
    st,     \* a BinIArrayStream
    sc,     \* a compute_hash call on the stream
    enc,    \* an encode call that writes to a std::ostream
    tb,     \* a look-up in a codec's alphabet and decoding table
    io      \* a BinArrayStream and the calls made on it

vars == <<rt, dec, h, hg, st, sc, enc, tb, io>>

Codecs16 == {"Base16"}
Codecs32 == {"Base32", "Base32Hex"}
Codecs64 == {"Base64", "Base64Url"}

RtIdle ==
    [phase |-> "input", data |-> <<>>, codec |-> "", via |-> "", wrapat |-> 0,
     text |-> <<>>, hn |-> FALSE, status |-> "", back |-> <<>>]

HashIdle == [alg |-> "", status |-> "none"]

HgIdle ==
    [phase |-> "none", msg |-> <<>>, calls |-> 0, k |-> 0, used |-> 0,
     via |-> "", digest |-> <<>>, str |-> <<>>, skipped |-> FALSE, room |-> 0,
     over |-> FALSE]

StreamIdle == ArrayStream(<<>>)

CallIdle ==
    [phase |-> "none", ops |-> 0, alg |-> "", length |-> -1, entry_cur |-> 0,
     absorbed |-> <<>>, maxchunk |-> 0, digest |-> <<>>]

DecIdle ==
    [phase |-> "idle", codec |-> "", overload |-> "", hn |-> FALSE, text |-> <<>>,
     d |-> Dec16Init]

TbIdle == [op |-> "none", codec |-> "", s |-> 0, valid |-> FALSE, v |-> 0, back |-> 0]

IoNoCall == [op |-> "none", was_good |-> TRUE, asked |-> 0, done |-> 0, touched |-> {}]

IoIdle ==
    [phase |-> "idle", s |-> ArrayStream(<<>>), endian |-> "little", ins |-> <<>>,
     got |-> <<>>, scn |-> "ins", last |-> IoNoCall, nops |-> 0]

EncIdle ==
    [phase |-> "input", data |-> <<>>, codec |-> "", overload |-> "", wrapat |-> 0,
     r |-> NewSink(0)]

\* ------------------------------------------------------- encode / decode session

\* The byte values a session draws its data from: all bits clear, all bits
\* set, and a mixed pattern (0x69).
RtBytes == {0, 105, 255}

\* encode(ptr, ptr_end[, wrapat]) returning std::string.
EncodeString(codec, data, wrapat) ==
    IF codec \in Codecs16 THEN DoEncode16(data, wrapat, -1).out
    ELSE IF codec \in Codecs32 THEN DoEncode32(codec, data, wrapat, -1).out
    ELSE DoEncode64(codec, data)

\* decode(string_view, handle_newline / ignore_newline) returning a vector,
\* or throwing the BasicParseError (status "error").
DecodeString(codec, text, hn) ==
    IF codec \in Codecs16 THEN Decode16(text, hn)
    ELSE IF codec \in Codecs32 THEN Decode32(codec, text, hn)
    ELSE DoDecode64(codec, text, hn)

RtPush(b) ==
    /\ rt.phase = "input"
    /\ Len(rt.data) < MaxBytes
    /\ rt' = [rt EXCEPT !.data = Append(@, b)]
    /\ UNCHANGED <<dec, h, hg, st, sc, enc, tb, io>>

\* The data is one of the words of the test tables.
RtLoad(k) ==
    /\ rt.phase = "input"
    /\ rt.data = <<>>
    /\ k \in 1..Len(Foobar)
    /\ rt' = [rt EXCEPT !.data = SubSeq(Foobar, 1, k)]
    /\ UNCHANGED <<dec, h, hg, st, sc, enc, tb, io>>

\* The string-returning encode overloads: "it" takes an iterator range,
\* "bis" a BinIStream over the same bytes.
RtVia == {"it", "bis"}

RtEncode(codec, via, wrapat) ==
    /\ rt.phase = "input"
    /\ codec \in Codecs64 => wrapat = 0
    /\ rt' = [rt EXCEPT !.phase = "encoded", !.codec = codec, !.via = via,
                        !.wrapat = wrapat,
                        !.text = IF via = "it" THEN EncodeString(codec, rt.data, wrapat)
                                 ELSE EncodeStringStream(codec, rt.data, wrapat)]
    /\ UNCHANGED <<dec, h, hg, st, sc, enc, tb, io>>

RtDecode(hn) ==
    /\ rt.phase = "encoded"
    /\ LET r == DecodeString(rt.codec, rt.text, hn)
       IN rt' = [rt EXCEPT !.phase = "decoded", !.hn = hn, !.status = r.status,
                           !.back = r.out]
    /\ UNCHANGED <<dec, h, hg, st, sc, enc, tb, io>>

RtInit == rt = RtIdle /\ dec = DecIdle /\ h = HashIdle /\ hg = HgIdle
    /\ st = StreamIdle /\ sc = CallIdle /\ enc = EncIdle /\ tb = TbIdle /\ io = IoIdle

RtNext ==
    \/ \E b \in RtBytes : RtPush(b)
    \/ \E k \in 1..Len(Foobar) : RtLoad(k)
    \/ \E codec \in Codecs16 \cup Codecs32 \cup Codecs64, via \in RtVia,
          wrapat \in 0..MaxWrap : RtEncode(codec, via, wrapat)
    \/ \E hn \in BOOLEAN : RtDecode(hn)

SpecRoundTrip == RtInit /\ [][RtNext]_vars


\* ------------------------------------------------------ character-wise decoding

\* The characters a decode call is fed.  Base16: '7', 'F', 'a', '=', newline.
\* Base32 family: 'Z' (in the Base32 alphabet only), '9' (in the Base32Hex
\* alphabet only), '=', newline.  Base64 family: 'Z', '-' (in the Base64Url
\* alphabet only), '=', newline.
DecChars(codec) ==
    IF codec \in Codecs16 THEN {55, 70, 97, 61, 10}
    ELSE IF codec \in Codecs32 THEN {90, 57, 61, 10}
    ELSE {90, 45, 61, 10}

MaxText(codec) ==
    IF codec \in Codecs16 THEN MaxText16
    ELSE IF codec \in Codecs32 THEN MaxText32
    ELSE MaxText64

\* The decode overloads: string or std::istream input, vector or BinOStream
\* output.
Overloads == {"str_vec", "str_os", "is_vec", "is_os"}

ToStream(overload) == overload \in {"str_os", "is_os"}

\* The Base64 string overloads without ignore_newline validate and decode the
\* whole string at once.
IsPure(codec, overload, hn) ==
    codec \in Codecs64 /\ overload \in {"str_vec", "str_os"} /\ ~hn

CountOf(text, ch) == Cardinality({i \in 1..Len(text) : text[i] = ch})

\* Sizes of the array behind the BinOStream a decoder writes to: room for one
\* byte, and room for OutCap.
DecCaps == {1, OutCap}

\* decode is called: on a string or a std::istream, and either returning a
\* vector (cap is 0 then) or writing to an empty array stream of cap bytes.
DecStart(codec, overload, hn, cap) ==
    /\ dec.phase = "idle"
    /\ IF ToStream(overload) THEN cap \in DecCaps ELSE cap = 0
    /\ LET os == ArrayStream(Zeros(cap)) IN
       dec' = [phase |-> "run", codec |-> codec, overload |-> overload, hn |-> hn,
               text |-> <<>>,
               d |-> IF codec \in Codecs16
                     THEN (IF ToStream(overload) THEN Dec16InitOs(os) ELSE Dec16Init)
                     ELSE IF codec \in Codecs32
                     THEN (IF ToStream(overload) THEN Dec32InitOs(os) ELSE Dec32Init)
                     ELSE Dec64Init(os)]
    /\ UNCHANGED <<rt, h, hg, st, sc, enc, tb, io>>

\* The decoder consumes one more character of its input.
DecChar(ch) ==
    /\ dec.phase = "run"
    /\ ch \in DecChars(dec.codec)
    /\ Len(dec.text) < MaxText(dec.codec)
    /\ ch = NL => CountOf(dec.text, NL) < MaxNewlines
    /\ LET d2 == IF dec.codec \in Codecs16 THEN Dec16Step(dec.d, ch, dec.hn)
                 ELSE IF dec.codec \in Codecs32 THEN Dec32Step(dec.codec, dec.d, ch, dec.hn)
                 ELSE IF IsPure(dec.codec, dec.overload, dec.hn) THEN dec.d
                 ELSE Dec64Step(dec.codec, dec.d, ch,
                                IF dec.overload \in {"str_vec", "str_os"} THEN TRUE ELSE dec.hn,
                                ToStream(dec.overload))
       IN dec' = [dec EXCEPT !.text = Append(@, ch), !.d = d2,
                             !.phase = IF d2.status = "run" THEN "run" ELSE "done"]
    /\ UNCHANGED <<rt, h, hg, st, sc, enc, tb, io>>

\* The input ends: the code after the character loop runs (or, for the
\* whole-string Base64 overloads, the entire call).
DecEnd ==
    /\ dec.phase = "run"
    /\ LET d2 == IF dec.codec \in Codecs16 THEN Dec16End(dec.d)
                 ELSE IF dec.codec \in Codecs32 THEN Dec32End(dec.codec, dec.d)
                 ELSE IF ~IsPure(dec.codec, dec.overload, dec.hn)
                 THEN Dec64End(dec.codec, dec.d, ToStream(dec.overload))
                 ELSE IF dec.overload = "str_vec"
                 THEN DoDecode64(dec.codec, dec.text, dec.hn)
                 ELSE DoDecode64Os(dec.codec, dec.text, dec.d.os, dec.hn)
       IN dec' = [dec EXCEPT !.d = d2, !.phase = "done"]
    /\ UNCHANGED <<rt, h, hg, st, sc, enc, tb, io>>

DecInit == rt = RtIdle /\ dec = DecIdle /\ h = HashIdle /\ hg = HgIdle
    /\ st = StreamIdle /\ sc = CallIdle /\ enc = EncIdle /\ tb = TbIdle /\ io = IoIdle

DecNext ==
    \/ \E codec \in Codecs16 \cup Codecs32 \cup Codecs64, overload \in Overloads,
          hn \in BOOLEAN, cap \in DecCaps \cup {0} : DecStart(codec, overload, hn, cap)
    \/ \E ch \in {10, 45, 55, 57, 61, 70, 90, 97} : DecChar(ch)
    \/ DecEnd

SpecDecode == DecInit /\ [][DecNext]_vars

\* The bytes a finished decode call delivered.
DecBytes == IF ToStream(dec.overload) THEN Written(dec.d.os) ELSE dec.d.out

\* The message of the parse error a decode call ended with.
DecMsg == IF dec.codec \in Codecs64 THEN dec.d.err.msg ELSE dec.d.msg

\* The count a decode overload that writes to a BinOStream returns.
DecCount == dec.d.written

\* The output stream has refused a byte of this call: a put found the array
\* full (only a failed put sets the implementation's eof bit), or a write
\* stored fewer bytes than it was handed.
DecRefused ==
    /\ dec.phase # "idle"
    /\ ToStream(dec.overload)
    /\ IF dec.codec \in Codecs64 THEN dec.d.status = "short"
       ELSE "eof" \in dec.d.os.impl_bits


\* ----------------------------------------------------------------------- C1
\* C1: decoding a codec's encoding of a byte sequence returns exactly that
\* sequence, for all five codecs; for the codecs whose encoder takes a wrap
\* column this holds for every wrapat when the decoder handles newlines.
C1_RoundTrip ==
    (rt.phase = "decoded" /\ (rt.codec \in Codecs64 \/ rt.hn))
        => (rt.status = "ok" /\ rt.back = rt.data)

\* A wrapped Base32 text with a padded partial group and a newline in it has
\* been decoded with newline handling.
C1_Witness ==
    /\ rt.phase = "decoded"
    /\ rt.codec = "Base32Hex"
    /\ rt.hn
    /\ rt.wrapat = 3
    /\ Len(rt.data) = 4
    /\ \E i \in 1..Len(rt.text) : rt.text[i] = NL
    /\ rt.text[Len(rt.text)] = Pad
    /\ rt.back = rt.data


\* ------------------------------------------------------------- hashing sessions

\* The bytes that are hashed: byte p of every message.
Msg(p) == (p * 7 + 3) % 256

MsgBytes(from, len) == [i \in 1..len |-> Msg(from + i - 1)]

\* The lengths do_hash is called with: nothing, up to the padding threshold
\* of the 64-byte algorithms, a whole block, more than two blocks.
HashLens == {0, 56, 64, 130}

\* The object after it has absorbed all but the last block's worth of the
\* longest message its length counter can count (2^61 bytes for the 64-bit
\* counters, 2^125 for the 128-bit one), all of them zero: the counter holds
\* 2^W - 8 * B, and the buffer is empty because that many bytes are whole
\* blocks.
NearLimit(alg) ==
    LET n == HalfLimbs(alg)
        low == [i \in 1..n |-> IF i = 1 THEN 65536 - 8 * BlockSize(alg) ELSE 65535]
        high == [i \in 1..n |-> 65535]
    IN IF alg = "MD5"
       THEN [Md5Reset EXCEPT !.state = <<SkipMark>>, !.count = <<low, high>>]
       ELSE [ShaReset(alg) EXCEPT !.state = <<SkipMark>>,
                                  !.length = [high |-> high, low |-> low]]

HNew(alg) ==
    /\ hg.phase = "none"
    /\ h' = HashNew(alg)
    /\ hg' = [hg EXCEPT !.phase = "open"]
    /\ UNCHANGED <<rt, dec, st, sc, enc, tb, io>>

\* do_hash calls that absorb a long run of zero bytes, up to one block
\* short of the counter's limit.
HSkip ==
    /\ hg.phase = "open"
    /\ hg.k = 0 /\ hg.calls = 0 /\ ~hg.skipped
    /\ h' = NearLimit(h.alg)
    /\ hg' = [hg EXCEPT !.skipped = TRUE, !.room = BlockSize(h.alg) - 1]
    /\ UNCHANGED <<rt, dec, st, sc, enc, tb, io>>

\* What a call that absorbs len more bytes does to the record of the session.
HgAbsorb(len, thrown) ==
    [hg EXCEPT !.msg = IF hg.via # "" THEN MsgBytes(0, len) ELSE @ \o MsgBytes(Len(@), len),
               !.calls = IF hg.via # "" THEN 1 ELSE @ + 1,
               !.used = @ + len,
               !.via = "", !.digest = <<>>, !.str = <<>>,
               !.over = @ \/ (hg.skipped /\ hg.k = 0 /\ len > hg.room),
               !.room = IF hg.skipped /\ hg.k = 0 /\ len <= hg.room THEN @ - len ELSE 0,
               !.phase = IF thrown THEN "thrown" ELSE "open"]

\* do_hash(input, len) on the next len bytes of the current message; the
\* first call after a finalization starts the next message.
HDoHash(len) ==
    /\ hg.phase = "open"
    /\ hg.used + len <= MaxAbsorb
    /\ IF hg.via # "" THEN hg.k < MaxMessages ELSE hg.calls < MaxCalls
    /\ LET from == IF hg.via # "" THEN 0 ELSE Len(hg.msg)
           h2 == DoHash(h, MsgBytes(from, len))
       IN /\ h' = h2
          /\ hg' = HgAbsorb(len, h2.status = "thrown")
    /\ UNCHANGED <<rt, dec, st, sc, enc, tb, io>>

\* finalize_hash() ends the current message.
HFinalize ==
    /\ hg.phase = "open"
    /\ hg.via = ""
    /\ LET r == FinalizeHash(h)
       IN /\ h' = r.h
          /\ hg' = [hg EXCEPT !.via = "finalize_hash", !.digest = r.digest,
                              !.str = <<>>, !.k = @ + 1]
    /\ UNCHANGED <<rt, dec, st, sc, enc, tb, io>>

\* compute_hash(buffer, len) hashes a whole message of len bytes;
\* compute_hash_string(buffer, len) renders what it returns.
HComputeHash(len) ==
    /\ hg.phase = "open"
    /\ hg.used + len <= MaxAbsorb
    /\ IF hg.via # "" THEN hg.k < MaxMessages ELSE hg.calls = 0
    /\ LET r == ComputeHash(h, MsgBytes(0, len))
           g == HgAbsorb(len, r.h.status = "thrown")
       IN /\ h' = r.h
          /\ hg' = IF r.h.status = "thrown" THEN g
                   ELSE [g EXCEPT !.via = "compute_hash", !.digest = r.digest,
                                  !.str = ComputeHashString(r.digest), !.k = @ + 1]
    /\ UNCHANGED <<rt, dec, st, sc, enc, tb, io>>

\* The length of a long run of zero bytes: 2^29, as a size_t of four limbs.
HashLongs == {<<0, 8192, 0, 0>>}

\* do_hash(zeros, length) with a long run of zero bytes on an MD5 object;
\* the session ends with it.
HDoHashLong(length) ==
    /\ hg.phase = "open"
    /\ h.alg = "MD5"
    /\ hg.via = "" /\ ~hg.skipped
    /\ h' = Md5DoHashZeros(h, length)
    /\ hg' = [hg EXCEPT !.phase = "long", !.calls = @ + 1]
    /\ UNCHANGED <<rt, dec, st, sc, enc, tb, io>>

HashInit == rt = RtIdle /\ dec = DecIdle /\ h = HashIdle /\ hg = HgIdle
    /\ st = StreamIdle /\ sc = CallIdle /\ enc = EncIdle /\ tb = TbIdle /\ io = IoIdle

HashNext ==
    \/ \E alg \in HashAlgs : HNew(alg)
    \/ HSkip
    \/ \E len \in HashLens : HDoHash(len)
    \/ HFinalize
    \/ \E len \in HashLens : HComputeHash(len)
    \/ \E length \in HashLongs : HDoHashLong(length)

SpecHash == HashInit /\ [][HashNext]_vars

\* The digest a newly constructed object returns for a message.
FreshDigest(alg, input) == ComputeHash(HashNew(alg), input).digest


\* ---------------------------------------------------------- stream hashing calls

\* Sizes of the array behind the stream: empty, small, exactly one chunk,
\* more than one chunk.
StreamSizes == {0, 100, 4096, 4200}

StreamAlgs == {"MD5", "SHA256"}

\* BinIArrayStream(array, n) over the n message bytes.
SNew(n) ==
    /\ sc.phase = "none"
    /\ st' = ArrayStream(MsgBytes(0, n))
    /\ sc' = [sc EXCEPT !.phase = "open"]
    /\ UNCHANGED <<rt, dec, h, hg, enc, tb, io>>

\* The stream exists, is not being hashed, and may be used once more first.
SUsable == sc.phase = "open" /\ sc.ops < MaxStreamOps

SRead(count) ==
    /\ SUsable
    /\ st' = StreamRead(st, count).st
    /\ sc' = [sc EXCEPT !.ops = @ + 1]
    /\ UNCHANGED <<rt, dec, h, hg, enc, tb, io>>

SClear ==
    /\ SUsable
    /\ st' = StreamClear(st)
    /\ sc' = [sc EXCEPT !.ops = @ + 1]
    /\ UNCHANGED <<rt, dec, h, hg, enc, tb, io>>

SSeekg(pos) ==
    /\ SUsable
    /\ st' = StreamSeekg(st, pos)
    /\ sc' = [sc EXCEPT !.ops = @ + 1]
    /\ UNCHANGED <<rt, dec, h, hg, enc, tb, io>>

SFinish(alg, length, c) ==
    LET r == FinalizeHash(c.h)
    IN /\ st' = c.st
       /\ sc' = [phase |-> "done", ops |-> sc.ops, alg |-> alg, length |-> length,
                 entry_cur |-> st.read_cur, absorbed |-> c.absorbed,
                 maxchunk |-> c.maxchunk, digest |-> r.digest]

\* compute_hash(BinIStream &) on a newly constructed hash object.
SComputeHash(alg) ==
    /\ sc.phase = "open"
    /\ Good(st)
    /\ SFinish(alg, -1, HashStreamLoop(HashCall(HashNew(alg), st)))
    /\ UNCHANGED <<rt, dec, h, hg, enc, tb, io>>

\* compute_hash(BinIStream &, length) on a newly constructed hash object.
SComputeHashLen(alg, length) ==
    /\ sc.phase = "open"
    /\ Good(st)
    /\ SFinish(alg, length, HashStreamLenLoop(HashCall(HashNew(alg), st), length))
    /\ UNCHANGED <<rt, dec, h, hg, enc, tb, io>>

StreamInit ==
    /\ rt = RtIdle /\ dec = DecIdle /\ h = HashIdle /\ hg = HgIdle
    /\ st = StreamIdle /\ sc = CallIdle /\ enc = EncIdle /\ tb = TbIdle /\ io = IoIdle

StreamNext ==
    \/ \E n \in StreamSizes : SNew(n)
    \/ \E count \in {40, 5000} : SRead(count)
    \/ SClear
    \/ \E pos \in {0, 50} : SSeekg(pos)
    \/ \E alg \in StreamAlgs : SComputeHash(alg)
    \/ \E alg \in StreamAlgs, length \in {0, 30, 4096, 5000} : SComputeHashLen(alg, length)

SpecStream == StreamInit /\ [][StreamNext]_vars

\* ------------------------------------------------- encoding to a std::ostream

\* The byte values the encoded data is drawn from: a mixed pattern (0x69)
\* and all bits set.
EncBytes == {105, 255}

\* How many characters the std::ostream accepts before a put fails: -1 for
\* a stream that never fails, or 0..MaxSinkCap.
EncCaps == {-1} \cup (0..MaxSinkCap)

EncOverloads == {"it_os", "bis_os"}

EncPush(b) ==
    /\ enc.phase = "input"
    /\ Len(enc.data) < MaxEncBytes
    /\ enc' = [enc EXCEPT !.data = Append(@, b)]
    /\ UNCHANGED <<rt, dec, h, hg, st, sc, tb, io>>

\* encode(beg, end, outstream[, wrapat]) or encode(instream, outstream[, wrapat])
EncCall(codec, overload, wrapat, cap) ==
    /\ enc.phase = "input"
    /\ codec \in Codecs64 => wrapat = 0
    /\ enc' = [enc EXCEPT !.phase = "done", !.codec = codec, !.overload = overload,
                          !.wrapat = wrapat,
                          !.r = EncodeOs(codec, overload, enc.data, wrapat, cap)]
    /\ UNCHANGED <<rt, dec, h, hg, st, sc, tb, io>>

EncInit == rt = RtIdle /\ dec = DecIdle /\ h = HashIdle /\ hg = HgIdle
    /\ st = StreamIdle /\ sc = CallIdle /\ enc = EncIdle /\ tb = TbIdle /\ io = IoIdle

EncNext ==
    \/ \E b \in EncBytes : EncPush(b)
    \/ \E codec \in Codecs16 \cup Codecs32 \cup Codecs64, overload \in EncOverloads,
          wrapat \in 0..MaxWrap, cap \in EncCaps : EncCall(codec, overload, wrapat, cap)

SpecEncode == EncInit /\ [][EncNext]_vars

\* ------------------------------------------- alphabets and decoding tables

\* The codecs that decode through a table.
TbCodecs == Codecs32 \cup Codecs64

\* Every value a character can take.
TbChars == 0..255

TbAlphabet(codec) == IF codec \in Codecs32 THEN Alphabet32Of(codec) ELSE Alphabet64Of(codec)

TbTable(codec) == IF codec \in Codecs32 THEN DecodeTable32Of(codec) ELSE DecodeTable64Of(codec)

TbIsValid(codec, ch) == IF codec \in Codecs32 THEN IsValid32(codec, ch) ELSE IsValid64(codec, ch)

\* is_valid_character(s), and for an accepted s decode_table[s] and the
\* alphabet's character at that position (-1 when the alphabet has no such
\* position).
TbChar(codec, s) ==
    /\ tb.op = "none"
    /\ LET valid == TbIsValid(codec, s)
           v == IF valid THEN TbTable(codec)[s + 1] ELSE -1
           back == IF valid /\ v < Len(TbAlphabet(codec)) THEN TbAlphabet(codec)[v + 1] ELSE -1
       IN tb' = [op |-> "char", codec |-> codec, s |-> s, valid |-> valid, v |-> v,
                 back |-> back]
    /\ UNCHANGED <<rt, dec, h, hg, st, sc, enc, io>>

\* alphabet[v], and decode_table at that character.
TbIndex(codec, v) ==
    /\ tb.op = "none"
    /\ v < Len(TbAlphabet(codec))
    /\ LET s == TbAlphabet(codec)[v + 1]
       IN tb' = [op |-> "index", codec |-> codec, s |-> s, valid |-> TbIsValid(codec, s),
                 v |-> v, back |-> TbTable(codec)[s + 1]]
    /\ UNCHANGED <<rt, dec, h, hg, st, sc, enc, io>>

TbInit == rt = RtIdle /\ dec = DecIdle /\ h = HashIdle /\ hg = HgIdle
    /\ st = StreamIdle /\ sc = CallIdle /\ enc = EncIdle /\ tb = TbIdle /\ io = IoIdle

TbNext ==
    \/ \E codec \in TbCodecs, s \in TbChars : TbChar(codec, s)
    \/ \E codec \in TbCodecs, v \in 0..63 : TbIndex(codec, v)

SpecTable == TbInit /\ [][TbNext]_vars

\* --------------------------------------------------- calls on a BinArrayStream

\* Sizes of the array behind the stream.
IoCaps == {2, 3}

IoEndians == {"little", "big"}

\* sizeof(T) of the values inserted and extracted, and the values.
IoWidths == {1, 2}

IoValues(width) == IF width = 1 THEN {7} ELSE {258}

\* Arguments of seekg and seekp, of read and ignore, and of write.
IoSeeks == {-1, 0, 4}

IoDirs == {"beg", "cur", "end"}

IoOffs == {-1, 1}

IoCounts == {0, 1, 2, 4}

IoDelims == {-1, 2}

IoWrites == {<<1>>, <<1, 2>>, <<1, 2, 1>>}

\* The array offsets a call went through: from where its cursor stood to
\* where it stands.
IoSpan(from, to) == {k \in -8..8 : from <= k /\ k < to}

\* What one more call leaves behind: the stream, the call (its name, whether
\* the stream was good() before it, the bytes asked for and delivered or
\* stored, the array offsets it read or wrote) and where the stream stands
\* in an insert / seekg(0) / extract sequence (the values inserted and the
\* values extracted are kept for as long as the calls form such a sequence).
IoAfter(op, s2, asked, done, touched, ins, got, scn) ==
    [io EXCEPT !.s = s2, !.ins = IF scn = "other" THEN <<>> ELSE ins,
               !.got = IF scn = "other" THEN <<>> ELSE got, !.scn = scn, !.nops = @ + 1,
               !.last = [op |-> op, was_good |-> Good(io.s), asked |-> asked,
                         done |-> done, touched |-> touched]]

IoOther(op, s2, asked, done, touched) ==
    IoAfter(op, s2, asked, done, touched, io.ins, io.got, "other")

IoCanCall == io.phase = "open" /\ io.nops < MaxIoOps

\* BinArrayStream str(array, cap); str.endian(endian);
IoNew(cap, endian) ==
    /\ io.phase = "idle"
    /\ io' = [IoIdle EXCEPT !.phase = "open", !.s = ArrayStream(Zeros(cap)),
                            !.endian = endian]
    /\ UNCHANGED <<rt, dec, h, hg, st, sc, enc, tb>>

\* str << value
IoInsert(width, v) ==
    /\ IoCanCall
    /\ LET s2 == StreamInsert(io.s, io.endian, v, width)
           fits == io.s.write_cur + width <= Len(io.s.arr)
       IN io' = IoAfter("insert", s2, width, s2.write_cur - io.s.write_cur,
                        IoSpan(io.s.write_cur, s2.write_cur),
                        Append(io.ins, <<width, v>>), io.got,
                        IF io.scn = "ins" /\ fits THEN "ins" ELSE "other")
    /\ UNCHANGED <<rt, dec, h, hg, st, sc, enc, tb>>

\* str >> value
IoExtract(width) ==
    /\ IoCanCall
    /\ LET r == StreamExtract(io.s, io.endian, width)
           k == Len(io.got) + 1
           same == io.scn = "ext" /\ k <= Len(io.ins) /\ io.ins[k][1] = width
       IN io' = IoAfter("extract", r.st, width, r.st.read_cur - io.s.read_cur,
                        IoSpan(io.s.read_cur, r.st.read_cur),
                        io.ins, Append(io.got, <<width, r.value>>),
                        IF same THEN "ext" ELSE "other")
    /\ UNCHANGED <<rt, dec, h, hg, st, sc, enc, tb>>

IoSeekg(pos) ==
    /\ IoCanCall
    /\ io' = IoAfter("seekg", StreamSeekg(io.s, pos), 0, 0, {}, io.ins, io.got,
                     IF io.scn = "ins" /\ pos = 0 /\ io.ins # <<>> THEN "ext" ELSE "other")
    /\ UNCHANGED <<rt, dec, h, hg, st, sc, enc, tb>>

IoSeekgDir(off, dir) ==
    /\ IoCanCall
    /\ io' = IoOther("seekg", StreamSeekgDir(io.s, off, dir), 0, 0, {})
    /\ UNCHANGED <<rt, dec, h, hg, st, sc, enc, tb>>

IoSeekp(pos) ==
    /\ IoCanCall
    /\ io' = IoOther("seekp", StreamSeekp(io.s, pos), 0, 0, {})
    /\ UNCHANGED <<rt, dec, h, hg, st, sc, enc, tb>>

IoSeekpDir(off, dir) ==
    /\ IoCanCall
    /\ io' = IoOther("seekp", StreamSeekpDir(io.s, off, dir), 0, 0, {})
    /\ UNCHANGED <<rt, dec, h, hg, st, sc, enc, tb>>

IoClear ==
    /\ IoCanCall
    /\ io' = IoOther("clear", StreamClear(io.s), 0, 0, {})
    /\ UNCHANGED <<rt, dec, h, hg, st, sc, enc, tb>>

IoGet ==
    /\ IoCanCall
    /\ LET r == StreamGet(io.s)
       IN io' = IoOther("get", r.st, 1, r.st.gcount, IoSpan(io.s.read_cur, r.st.read_cur))
    /\ UNCHANGED <<rt, dec, h, hg, st, sc, enc, tb>>

IoPeek ==
    /\ IoCanCall
    /\ LET r == StreamPeek(io.s)
       IN io' = IoOther("peek", r.st, 1, IF r.rv >= 0 THEN 1 ELSE 0,
                        IF r.rv >= 0 /\ io.s.pb < 0 THEN {io.s.read_cur} ELSE {})
    /\ UNCHANGED <<rt, dec, h, hg, st, sc, enc, tb>>

IoPutback(b) ==
    /\ IoCanCall
    /\ io' = IoOther("putback", StreamPutback(io.s, b), 0, 0, {})
    /\ UNCHANGED <<rt, dec, h, hg, st, sc, enc, tb>>

IoIgnore(count, delim) ==
    /\ IoCanCall
    /\ LET s2 == StreamIgnore(io.s, count, delim)
       IN io' = IoOther("ignore", s2, count, s2.gcount, IoSpan(io.s.read_cur, s2.read_cur))
    /\ UNCHANGED <<rt, dec, h, hg, st, sc, enc, tb>>

IoRead(count) ==
    /\ IoCanCall
    /\ LET r == StreamRead(io.s, count)
       IN io' = IoOther("read", r.st, count, Len(r.data),
                        IoSpan(io.s.read_cur, r.st.read_cur))
    /\ UNCHANGED <<rt, dec, h, hg, st, sc, enc, tb>>

IoPut(b) ==
    /\ IoCanCall
    /\ LET r == StreamPut(io.s, b)
       IN io' = IoOther("put", r.st, 1, IF r.rv >= 0 THEN 1 ELSE 0,
                        IoSpan(io.s.write_cur, r.st.write_cur))
    /\ UNCHANGED <<rt, dec, h, hg, st, sc, enc, tb>>

IoWrite(s) ==
    /\ IoCanCall
    /\ LET r == StreamWrite(io.s, s)
       IN io' = IoOther("write", r.st, Len(s), r.rv, IoSpan(io.s.write_cur, r.st.write_cur))
    /\ UNCHANGED <<rt, dec, h, hg, st, sc, enc, tb>>

IoInit == rt = RtIdle /\ dec = DecIdle /\ h = HashIdle /\ hg = HgIdle
    /\ st = StreamIdle /\ sc = CallIdle /\ enc = EncIdle /\ tb = TbIdle /\ io = IoIdle

IoNext ==
    \/ \E cap \in IoCaps, endian \in IoEndians : IoNew(cap, endian)
    \/ \E width \in IoWidths : \E v \in IoValues(width) : IoInsert(width, v)
    \/ \E width \in IoWidths : IoExtract(width)
    \/ \E pos \in IoSeeks : IoSeekg(pos)
    \/ \E off \in IoOffs, dir \in IoDirs : IoSeekgDir(off, dir)
    \/ \E pos \in IoSeeks : IoSeekp(pos)
    \/ \E off \in IoOffs, dir \in IoDirs : IoSeekpDir(off, dir)
    \/ IoClear
    \/ IoGet
    \/ IoPeek
    \/ IoPutback(9)
    \/ \E count \in IoCounts, delim \in IoDelims : IoIgnore(count, delim)
    \/ \E count \in IoCounts : IoRead(count)
    \/ IoPut(2)
    \/ \E s \in IoWrites : IoWrite(s)

SpecIo == IoInit /\ [][IoNext]_vars

\* The count an encode call returned, and the characters its stream holds.
EncCount == enc.r.written

EncChars == enc.r.out


\* ------------------------------------------------- shapes of the decoded text

NotNewline(ch) == ch # NL

\* The text as the decoder groups it: newlines dropped when they are handled.
DecStripped == IF dec.hn THEN SelectSeq(dec.text, NotNewline) ELSE dec.text

InAlphabet(a, ch) == \E i \in 1..Len(a) : a[i] = ch

DecAlphabet ==
    IF dec.codec \in Codecs16 THEN Alphabet16
    ELSE IF dec.codec \in Codecs32 THEN Alphabet32Of(dec.codec)
    ELSE Alphabet64Of(dec.codec)

\* The text is n alphabet symbols followed by p pad characters.
DecSymsThenPads(n, p) ==
    /\ Len(DecStripped) = n + p
    /\ \A i \in 1..n : InAlphabet(DecAlphabet, DecStripped[i])
    /\ \A i \in (n + 1)..(n + p) : DecStripped[i] = Pad

\* ----------------------------------------------------------------------- C2
\* C2: a Base64/Base64Url text of one or more complete 4-symbol groups
\* followed by a single '=' ends in a parse error, for every decode overload
\* and both values of ignore_newline.
C2_StrayPadRejected ==
    (/\ dec.phase = "done"
     /\ dec.codec \in Codecs64
     /\ ~DecRefused
     /\ \E g \in 1..MaxText64 : dec.text = [i \in 1..(4 * g + 1) |->
                                   IF i <= 4 * g THEN ChrZ ELSE Pad])
        => dec.d.status = "error"

\* ----------------------------------------------------------------------- C7
\* C7: Base32/Base32Hex decoding accepts an incomplete final group only when
\* it has 2, 4, 5 or 7 symbols followed by exactly 6, 4, 3 or 1 '='; every
\* other incomplete final group is a parse error.
C7_PartialGroupPadding ==
    \A n \in 1..MaxText32, p \in 0..MaxText32 :
        (/\ dec.phase = "done"
         /\ dec.codec \in Codecs32
         /\ ~DecRefused
         /\ n % 8 # 0
         /\ DecSymsThenPads(n, p))
            => (dec.d.status = "ok" <=> <<n % 8, p>> \in {<<2, 6>>, <<4, 4>>, <<5, 3>>, <<7, 1>>})

\* ----------------------------------------------------------------------- C8
\* C8: a Base32/Base32Hex input ending in a partial group of 2, 3, 4, 5, 6 or
\* 7 symbols decodes that group to exactly 1, 1, 2, 3, 3 or 4 bytes.
C8_Claimed == <<0, 1, 1, 2, 3, 3, 4>>

C8_PartialGroupBytes ==
    \A n \in 1..MaxText32, p \in 0..MaxText32 :
        (/\ dec.phase = "done"
         /\ dec.codec \in Codecs32
         /\ dec.d.status = "ok"
         /\ ~DecRefused
         /\ n % 8 >= 2
         /\ DecSymsThenPads(n, p))
            => Len(DecBytes) = 5 * (n \div 8) + C8_Claimed[n % 8]

\* ----------------------------------------------------------------------- C9
\* C9: in the Base64/Base64Url decoders an input ending in 3 symbols and one
\* '=' yields 2 bytes for that group, 2 symbols and two '=' yield 1 byte, and
\* every other combination of 1..3 leftover symbols with 0..2 pads is a
\* length/padding parse error.
C9_PartialQuad ==
    \A n \in 1..MaxText64, p \in 0..2 :
        (/\ dec.phase = "done"
         /\ dec.codec \in Codecs64
         /\ ~DecRefused
         /\ n % 4 # 0
         /\ DecSymsThenPads(n, p))
            => IF n % 4 = 3 /\ p = 1
               THEN dec.d.status = "ok" /\ Len(DecBytes) = 3 * (n \div 4) + 2
               ELSE IF n % 4 = 2 /\ p = 2
               THEN dec.d.status = "ok" /\ Len(DecBytes) = 3 * (n \div 4) + 1
               ELSE /\ dec.d.status = "error"
                    /\ DecMsg \in {"Invalid length or padding", "Invalid length"}

\* The stream-to-stream overload has decoded "Z-Z=" to two bytes.
C9_Witness ==
    /\ dec.phase = "done"
    /\ dec.codec = "Base64Url"
    /\ dec.overload = "is_os"
    /\ dec.text = <<90, 45, 90, 61>>
    /\ dec.d.status = "ok"
    /\ Len(DecBytes) = 2

\* ---------------------------------------------------------------------- C10
\* C10: Base16 decoding succeeds exactly when the input, newlines dropped if
\* handle_newline, is an even number of characters from 0-9 and A-F; an odd
\* number of symbols is a length error and any other character an
\* invalid-character error.
C10_HexDigits == (48..57) \cup (65..70)

C10_Base16Accepts ==
    (dec.phase = "done" /\ dec.codec \in Codecs16 /\ ~DecRefused) =>
        LET allhex == \A i \in 1..Len(DecStripped) : DecStripped[i] \in C10_HexDigits
            even == Len(DecStripped) % 2 = 0
        IN /\ dec.d.status = "ok" <=> (allhex /\ even)
           /\ (allhex /\ ~even) => (dec.d.status = "error" /\ DecMsg = "Length error")
           /\ ~allhex => (dec.d.status = "error" /\ DecMsg = "Invalid character")

\* A wrapped three-digit text has been refused for its length.
C10_Witness ==
    /\ dec.phase = "done"
    /\ dec.codec = "Base16"
    /\ dec.hn
    /\ dec.text = <<55, 70, 10, 55>>
    /\ dec.d.status = "error"
    /\ DecMsg = "Length error"


\* ----------------------------------------------------------------------- C3
\* C3: every digest returned by successive compute_hash calls on one object
\* equals the digest a newly constructed object returns for the same
\* message, for every hash class.
C3_ReuseAfterFinalize ==
    (hg.via = "compute_hash" /\ ~hg.skipped)
        => hg.digest = FreshDigest(h.alg, hg.msg)

\* ----------------------------------------------------------------------- C4
\* C4: in every hash algorithm, absorbing input that takes the message bit
\* length past what the length counter can hold raises an error: the counter
\* never wraps silently and no digest is returned.
C4_OverflowRaises == hg.over => hg.phase = "thrown"

C6_Expected ==
    LET rest == SubSeq(st.arr, sc.entry_cur + 1, Len(st.arr))
    IN IF sc.length < 0 \/ sc.length >= Len(rest) THEN rest
       ELSE SubSeq(rest, 1, sc.length)

\* C6: on a stream that is good() at entry, compute_hash(stream) absorbs
\* exactly the bytes from the get position to the end and
\* compute_hash(stream, length) the first min(length, remaining) of them, in
\* chunks of at most 4096 bytes, and the digest returned is that of the same
\* bytes hashed from memory.
C6_StreamHash ==
    sc.phase = "done" =>
        /\ sc.absorbed = C6_Expected
        /\ sc.maxchunk <= ChunkSize
        /\ sc.digest = FreshDigest(sc.alg, C6_Expected)


\* ------------------------------------------------- position of a parse error

\* BasicParseError::line() and position() of the error a decode call threw.
DecErrLine == IF dec.codec \in Codecs64 THEN dec.d.err.line ELSE dec.d.line

DecErrPos == IF dec.codec \in Codecs64 THEN dec.d.err.pos ELSE dec.d.pos

\* A character no decoder of the codec accepts anywhere: not in the alphabet,
\* not a newline that is handled, and (Base32, Base64) not the pad character.
DecInvalid(ch) ==
    /\ ~InAlphabet(DecAlphabet, ch)
    /\ ~(ch = NL /\ dec.hn)
    /\ ~(ch = Pad /\ dec.codec \notin Codecs16)

DecInvalidAt == {i \in 1..Len(dec.text) : DecInvalid(dec.text[i])}

\* Line and column, both from 1, of character i of the text.
TextLine(i) ==
    1 + (IF dec.hn THEN Cardinality({j \in 1..(i - 1) : dec.text[j] = NL}) ELSE 0)

TextCol(i) ==
    LET nls == IF dec.hn THEN {j \in 1..(i - 1) : dec.text[j] = NL} ELSE {}
        lastnl == IF nls = {} THEN 0 ELSE CHOOSE j \in nls : \A k \in nls : k <= j
    IN i - lastnl

\* The error carries the line and column of the one invalid character.
DecErrorAtInvalid ==
    LET i == CHOOSE j \in DecInvalidAt : TRUE
    IN /\ dec.d.status = "error"
       /\ DecErrLine = TextLine(i)
       /\ DecErrPos = TextCol(i)

\* ---------------------------------------------------------------------- C11
\* C11: a Base16 input with exactly one invalid character makes decode throw
\* a BasicParseError whose line() and position() are the line and column,
\* both counted from 1, of that character.
C11_Base16ErrorPosition ==
    (/\ dec.phase = "done"
     /\ dec.codec \in Codecs16
     /\ ~DecRefused
     /\ Cardinality(DecInvalidAt) = 1)
        => DecErrorAtInvalid


\* ---------------------------------------------------------------------- C12
\* C12: a Base64/Base64Url input with exactly one invalid character makes
\* every decode overload, under either ignore_newline setting, report the
\* line and column of that character, both counted from 1 (and so the same
\* pair in every overload).
C12_Base64ErrorPosition ==
    (/\ dec.phase = "done"
     /\ dec.codec \in Codecs64
     /\ ~DecRefused
     /\ Cardinality(DecInvalidAt) = 1)
        => DecErrorAtInvalid


\* ---------------------------------------------------------------------- C13
\* C13: a Base32/Base32Hex input with exactly one invalid character makes
\* decode throw a BasicParseError whose line() and position() are the line
\* and column, both counted from 1, of that character.
C13_Base32ErrorPosition ==
    (/\ dec.phase = "done"
     /\ dec.codec \in Codecs32
     /\ ~DecRefused
     /\ Cardinality(DecInvalidAt) = 1)
        => DecErrorAtInvalid

\* Base32 has refused the '9' in the second column of the second line.
C13_Witness ==
    /\ dec.phase = "done"
    /\ dec.codec = "Base32"
    /\ dec.hn
    /\ dec.text = <<90, 90, 10, 90, 57>>
    /\ dec.d.status = "error"
    /\ DecErrLine = 2
    /\ DecErrPos = 2


\* ------------------------------------------- a BinOStream that refuses a byte

\* C14: when a Base16, Base32 or Base64 decode call writes to a BinOStream
\* and the stream refuses a byte, the call consumes no further input, the
\* count it returns is the number of bytes the stream stored, and the stream
\* is left in a state that is not good().
C14_RefusedByteStops ==
    DecRefused =>
        /\ dec.phase = "done"
        /\ dec.d.status # "error"
        /\ DecCount = dec.d.os.write_cur
        /\ ~Good(dec.d.os)

\* ------------------------------------------------ the count encode returns

\* C15: every encode overload of the Base16, Base32 and Base64 families that
\* writes to a std::ostream returns the number of characters it put into the
\* stream, wrap newlines included, whether the stream took everything or
\* failed part-way.
C15_EncodeCount ==
    enc.phase = "done" => EncCount = Len(EncChars)

\* ------------------------------------------------ a sink that rejects a push

\* The output function has rejected a character of this encode call.
EncRejected == enc.phase = "done" /\ ~enc.r.ok

\* What the call would have pushed to a sink that rejects nothing.
EncFull == EncodeOs(enc.codec, enc.overload, enc.data, enc.wrapat, -1).out

\* The in_func calls made by the time the rejected character is pushed: the
\* rejected push is number Len(EncChars) + 1; Base16 has read one byte for
\* every two symbols, Base32 five bytes for every eight symbols, or all the
\* bytes and the end of the input for the last, partial group.
EncReadsNeeded ==
    LET k == Len(EncChars) + 1
        m == Cardinality({j \in 1..k : EncFull[j] # NL})
        n == Len(enc.data)
        g == (m + 7) \div 8
    IN IF enc.codec \in Codecs16 THEN (m + 1) \div 2
       ELSE IF 5 * g <= n THEN 5 * g ELSE n + 1

\* C16: in Base16 and Base32 / Base32Hex encoding, once the output function
\* rejects a character (symbol, pad or wrap newline), do_encode returns
\* without another call of the output function or the input function, and
\* the characters pushed before stay in the sink.
C16_RejectStops ==
    (EncRejected /\ enc.codec \in Codecs16 \cup Codecs32) =>
        /\ enc.r.calls = Len(EncChars) + 1
        /\ Len(EncFull) > Len(EncChars)
        /\ EncChars = SubSeq(EncFull, 1, Len(EncChars))
        /\ enc.r.reads = EncReadsNeeded

\* A Base32 call with wrapat 2 whose stream takes two symbols and rejects
\* the newline that follows them.
C16_Witness ==
    /\ EncRejected
    /\ enc.codec = "Base32"
    /\ enc.wrapat = 2
    /\ enc.data = <<105>>
    /\ Len(EncChars) = 2
    /\ EncFull[3] = NL
    /\ enc.r.calls = 3
    /\ enc.r.reads = 2

\* ------------------------------------------------------- newlines in the input

\* The consumed text holds a newline.
DecHasNewline == \E i \in 1..Len(dec.text) : dec.text[i] = NL

\* What the same codec decodes from the text with its newlines taken out,
\* newline handling disabled.
DecOfStripped == DecodeString(dec.codec, SelectSeq(dec.text, NotNewline), FALSE)

\* C17: for all five decoders, with newline handling enabled the newlines
\* inserted anywhere in a valid encoded text are skipped and the decoded
\* bytes are those of the text without them; with newline handling disabled
\* a newline in the input ends decoding in a parse error.
C17_NewlineHandling ==
    (dec.phase = "done" /\ ~DecRefused /\ DecHasNewline) =>
        IF dec.hn
        THEN DecOfStripped.status = "ok" =>
                 (dec.d.status = "ok" /\ DecBytes = DecOfStripped.out)
        ELSE dec.d.status = "error"

\* "Zg=\n=" decoded by the Base64 istream overload that writes to a stream,
\* newlines ignored: the one byte of "Zg==".
C17_Witness ==
    /\ dec.phase = "done"
    /\ dec.codec = "Base64"
    /\ dec.overload = "is_os"
    /\ dec.hn
    /\ dec.text = <<90, 90, 61, 10, 61>>
    /\ dec.d.status = "ok"
    /\ Len(DecBytes) = 1
    /\ DecBytes = DecOfStripped.out

\* ---------------------------------------------------------------- line wrapping

\* text with a newline after every w-th character.
RECURSIVE WithNewlines(_, _)
WithNewlines(text, w) ==
    IF Len(text) < w THEN text
    ELSE SubSeq(text, 1, w) \o <<NL>> \o WithNewlines(SubSeq(text, w + 1, Len(text)), w)

\* The lengths of the lines of text: the runs of characters between newlines.
LineLengths(text) ==
    LET cuts == {0, Len(text) + 1} \cup {i \in 1..Len(text) : text[i] = NL}
    IN {b - a - 1 : <<a, b>> \in
           {c \in cuts \X cuts : c[1] < c[2] /\ \A k \in cuts : ~(c[1] < k /\ k < c[2])}}

\* C18: Base16, Base32 and Base32Hex encoding with wrapat = w > 0 gives the
\* wrapat = 0 output with one newline after every w-th output character, pad
\* characters counted and newlines not, so that no line is longer than w.
C18_WrapInsertsNewlines ==
    (rt.phase # "input" /\ rt.codec \in Codecs16 \cup Codecs32 /\ rt.wrapat > 0) =>
        /\ rt.text = WithNewlines(EncodeString(rt.codec, rt.data, 0), rt.wrapat)
        /\ \A n \in LineLengths(rt.text) : n <= rt.wrapat

\* One byte encoded by Base32 with wrapat 3: two symbols and six pads, a
\* newline after the third and after the sixth character.
C18_Witness ==
    /\ rt.phase = "encoded"
    /\ rt.codec = "Base32"
    /\ rt.wrapat = 3
    /\ Len(rt.data) = 1
    /\ Len(rt.text) = 10
    /\ rt.text[4] = NL
    /\ rt.text[8] = NL
    /\ rt.text[7] = Pad

\* ------------------------------------------------------------ the RFC 4648 text

AlphabetOf(codec) ==
    IF codec \in Codecs16 THEN Alphabet16
    ELSE IF codec \in Codecs32 THEN Alphabet32Of(codec)
    ELSE Alphabet64Of(codec)

\* Bits per symbol, and symbols per group.
RfcBits(codec) == IF codec \in Codecs16 THEN 4 ELSE IF codec \in Codecs32 THEN 5 ELSE 6

RfcGroup(codec) == IF codec \in Codecs16 THEN 2 ELSE IF codec \in Codecs32 THEN 8 ELSE 4

\* Bit j of the data, most significant bit of the first byte first; 0 past
\* the end.
RfcBit(data, j) ==
    IF j >= 8 * Len(data) THEN 0 ELSE (data[j \div 8 + 1] \div (2 ^ (7 - (j % 8)))) % 2

\* The number written by the k bits from bit j on.
RECURSIVE RfcValue(_, _, _)
RfcValue(data, j, k) ==
    IF k = 0 THEN 0 ELSE RfcBit(data, j) * (2 ^ (k - 1)) + RfcValue(data, j + 1, k - 1)

\* The RFC 4648 encoding of data.
RfcText(codec, data) ==
    LET k == RfcBits(codec)
        g == RfcGroup(codec)
        nsym == (8 * Len(data) + k - 1) \div k
        total == g * ((nsym + g - 1) \div g)
    IN [i \in 1..total |->
           IF i <= nsym THEN AlphabetOf(codec)[RfcValue(data, (i - 1) * k, k) + 1] ELSE Pad]

\* 2n, 8 * ceil(n / 5), 4 * ceil(n / 3)
RfcLength(codec, n) ==
    IF codec \in Codecs16 THEN 2 * n
    ELSE IF codec \in Codecs32 THEN 8 * ((n + 4) \div 5)
    ELSE 4 * ((n + 2) \div 3)

\* C19: for every byte sequence of length n each string-returning encoder,
\* unwrapped, emits the RFC 4648 text: the bits most significant first in
\* symbols of 4, 5 or 6 bits, the last group zero-filled and padded with
\* '='; it has 2n, 8 * ceil(n / 5) or 4 * ceil(n / 3) characters; and for
\* the words of the test tables it is the text the tables give.
C19_Rfc4648Text ==
    (rt.phase # "input" /\ rt.wrapat = 0) =>
        /\ rt.text = RfcText(rt.codec, rt.data)
        /\ Len(rt.text) = RfcLength(rt.codec, Len(rt.data))
        /\ \A k \in 1..Len(Foobar) :
               rt.data = SubSeq(Foobar, 1, k) => rt.text = TestData(rt.codec)[k]

\* "foobar" encoded from a BinIStream by Base32: a full group, a group of
\* one byte and its six pads.
C19_Witness ==
    /\ rt.phase = "encoded"
    /\ rt.codec = "Base32"
    /\ rt.via = "bis"
    /\ rt.wrapat = 0
    /\ rt.data = Foobar
    /\ rt.text = TestData32[6]
    /\ Len(rt.text) = 16
    /\ rt.text[11] = Pad

\* ------------------------------------------- alphabet and table are inverses

\* C20: for Base32, Base32Hex, Base64 and Base64Url every character s the
\* validity check accepts has alphabet[decode_table[s]] = s, and every
\* alphabet position v has decode_table[alphabet[v]] = v.
C20_TableInverse ==
    /\ (tb.op = "char" /\ tb.valid) => tb.back = tb.s
    /\ tb.op = "index" => tb.back = tb.v

\* '_' looked up by Base64Url: accepted, position 63, and position 63 of
\* the alphabet is '_'.
C20_Witness ==
    /\ tb.op = "char"
    /\ tb.codec = "Base64Url"
    /\ tb.s = 95
    /\ tb.valid
    /\ tb.v = 63
    /\ tb.back = 95

\* ---------------------------------------------------------- the digest as text

\* The digest length in bytes the algorithms are specified with.
C21_N(alg) ==
    CASE alg = "MD5" -> 16
      [] alg = "SHA1" -> 20
      [] alg = "SHA224" -> 28
      [] alg = "SHA256" -> 32
      [] alg = "SHA384" -> 48
      [] OTHER -> 64

\* C21: compute_hash_string returns exactly 2N characters, each of them one
\* of 0-9 and A-F, N being the digest length of the algorithm: 16, 20, 28,
\* 32, 48 or 64 bytes.
C21_HashStringShape ==
    hg.via = "compute_hash" =>
        /\ Len(hg.str) = 2 * C21_N(hg.digest[1])
        /\ \A j \in 1..Len(hg.str) : IsValid16(hg.str[j])

\* SHA-224 has hashed a message of 130 bytes; the text has 56 characters,
\* among them a byte below 16 written with its leading 0.
C21_Witness ==
    /\ hg.via = "compute_hash"
    /\ hg.digest[1] = "SHA224"
    /\ Len(hg.msg) = 130
    /\ Len(hg.str) = 56
    /\ \E i \in 1..28 : DigestBytes(hg.digest)[i] < 16 /\ hg.str[2 * i - 1] = Chr0


\* ------------------------------------------- insertion and extraction of values

\* C22: on a BinArrayStream, after inserting any sequence of fixed-width
\* values with operator<< (their total size within the array) and calling
\* seekg(0), extracting with operator>> in the same order and with the same
\* types returns the inserted values, under either endian setting, and
\* leaves the stream good().
C22_InsertExtract ==
    io.scn = "ext" =>
        /\ \A k \in 1..Len(io.got) : io.got[k] = io.ins[k]
        /\ Good(io.s)

\* C26: on a BinArrayStream that is good(), a write() that stores all the
\* bytes requested and a read() that delivers all the bytes requested each
\* leave the stream good(), whatever calls came before.
C26_FullTransferStaysGood ==
    (/\ io.last.op \in {"write", "read"}
     /\ io.last.was_good
     /\ io.last.done = io.last.asked)
        => Good(io.s)

\* C30: after any sequence of get, peek, putback, ignore, read, put, write,
\* seekg and seekp calls on an array-backed stream, both cursors lie between
\* the start and the end of the array (inclusive), and no call reads or
\* writes outside the array.
C30_CursorsInArray ==
    io.phase = "open" =>
        /\ 0 <= io.s.read_cur /\ io.s.read_cur <= Len(io.s.arr)
        /\ 0 <= io.s.write_cur /\ io.s.write_cur <= Len(io.s.arr)
        /\ io.last.touched \subseteq 0..(Len(io.s.arr) - 1)

\* A write of more bytes than the array has, made as the third call with the
\* put cursor at the end of the array: nothing is stored, the stream is at
\* eof and the cursors stand at the two ends.
C30_Witness ==
    /\ io.phase = "open"
    /\ io.nops = 3
    /\ io.last.op = "write" /\ io.last.asked = 3 /\ io.last.done = 0
    /\ io.s.read_cur = 0 /\ io.s.write_cur = Len(io.s.arr)
    /\ "eof" \in io.s.bits

\* ------------------------------------------------------ padding, then more text

\* The decoders that take their input one character at a time.
DecCharwise ==
    /\ dec.phase # "idle"
    /\ \/ dec.codec \in Codecs32
       \/ dec.codec \in Codecs64 /\ ~IsPure(dec.codec, dec.overload, dec.hn)

\* An alphabet symbol of the codec in use.
DecSymbol(ch) ==
    IF dec.codec \in Codecs32 THEN IsValid32(dec.codec, ch) ELSE IsValid64(dec.codec, ch)

\* The most '=' a decoder takes.
DecMaxPad == IF dec.codec \in Codecs32 THEN 6 ELSE 2

\* C23: in the Base32 and Base64 character-by-character decoders, once a '='
\* has been consumed every later alphabet symbol ends decoding in a parse
\* error (newlines in between do not reset this), and a '=' beyond the
\* maximum count (the third for Base64, the seventh for Base32) also ends
\* decoding in a parse error.
C23_NothingAfterPadding ==
    DecCharwise =>
        /\ (\E i, j \in 1..Len(dec.text) :
                i < j /\ dec.text[i] = Pad /\ DecSymbol(dec.text[j]))
              => dec.phase = "done" /\ dec.d.status = "error"
        /\ CountOf(dec.text, Pad) > DecMaxPad
              => dec.phase = "done" /\ dec.d.status = "error"

\* Base64 text with a '=', a newline and then a symbol, read with newlines
\* skipped: the symbol ends the call in a parse error.
C23_Witness ==
    /\ DecCharwise
    /\ dec.codec = "Base64" /\ dec.hn
    /\ Len(dec.text) = 4
    /\ DecSymbol(dec.text[1]) /\ dec.text[2] = Pad /\ dec.text[3] = NL
    /\ DecSymbol(dec.text[4])
    /\ dec.d.status = "error"

\* ------------------------------------------------------------------ padding

\* The blocks handed to the compression function, end to end.
RECURSIVE C24_Fed(_)
C24_Fed(state) == IF state = <<>> THEN <<>> ELSE Head(state) \o C24_Fed(Tail(state))

\* Size of the length field.
C24_L(alg) == IF alg \in {"SHA384", "SHA512"} THEN 16 ELSE 8

\* The bit count v in a field of L bytes: most significant byte first in the
\* SHA family, least significant byte first in MD5.
RECURSIVE C24_ByteOf(_, _)
C24_ByteOf(v, k) == IF k = 0 THEN v % 256 ELSE C24_ByteOf(v \div 256, k - 1)

C24_LengthField(alg, v, L) ==
    [i \in 1..L |-> IF alg = "MD5" THEN C24_ByteOf(v, i - 1) ELSE C24_ByteOf(v, L - i)]

\* The least multiple of B that is at least n + 1 + L.
C24_PaddedLength(n, B, L) == ((n + 1 + L + B - 1) \div B) * B

C25_EncodeOverloadsAgree ==
    (enc.phase = "done" /\ enc.codec \in Codecs64 /\ enc.r.cap = -1) =>
        LET it_str == EncodeString(enc.codec, enc.data, 0)
            it_os == EncodeOs(enc.codec, "it_os", enc.data, 0, -1).out
            bis_str == EncodeStringStream(enc.codec, enc.data, 0)
            bis_os == EncodeOs(enc.codec, "bis_os", enc.data, 0, -1).out
        IN /\ enc.r.out = IF enc.overload = "it_os" THEN it_os ELSE bis_os
           /\ it_str = it_os
           /\ it_str = bis_str
           /\ it_str = bis_os

\* ------------------------------------------------------- the block-buffer index

\* C27: in SHA-1, SHA-224/256 and SHA-384/512 the fill index of the block
\* buffer is strictly less than the block size whenever no do_hash or
\* finalize_hash call is executing, also after a do_hash call that ended by
\* raising the length-overflow error.
C27_IndexInsideBlock ==
    (hg.phase \in {"open", "thrown"} /\ h.alg # "MD5") => h.index < BlockSize(h.alg)

\* ------------------------------------------------------------ MD5's bit counter

\* The bytes the object has absorbed since it was constructed or last
\* finalized: the bytes of the current message, after 2^61 - 64 zero bytes
\* where the first message began with a long skip, and before 2^29 zero
\* bytes where the last call absorbed a long run.  C28_Bits is 8 times their number modulo 2^64,
\* C28_Tail the last (n mod 64) of them.
C28_Bits ==
    LET base == IF hg.skipped /\ hg.k = 0 THEN <<65536 - 512, 65535, 65535, 65535>>
                ELSE LZero(4)
        run == IF hg.phase = "long" THEN <<0, 0, 1, 0>> ELSE LZero(4)
    IN LAdd(LAddL(base, run), 8 * Len(hg.msg))

C28_Tail ==
    LET k == Len(hg.msg) % 64
    IN IF hg.phase = "long" THEN Zeros(k)
       ELSE SubSeq(hg.msg, Len(hg.msg) - k + 1, Len(hg.msg))

\* C28: after MD5 has absorbed a total of n bytes through any sequence of
\* do_hash calls, each of any length a size_t can hold, its 64-bit bit
\* counter (_count[1] the high word, _count[0] the low word) equals 8n
\* modulo 2^64 and its block buffer holds the last n mod 64 bytes absorbed.
C28_Md5Counter ==
    (h.alg = "MD5" /\ hg.phase \in {"open", "long"} /\ hg.via = "") =>
        /\ h.count[1] \o h.count[2] = C28_Bits
        /\ SubSeq(h.buffer, 1, Len(C28_Tail)) = C28_Tail

\* ------------------------------------------------- positions of Base64 errors

\* The characters read on the line the error reports (line 0 is reported by
\* the whole-string check, which has read the whole text).
C29_LineChars ==
    IF DecErrLine = 0 THEN Len(dec.text)
    ELSE Cardinality({i \in 1..Len(dec.text) :
                        TextLine(i) = DecErrLine /\ ~(dec.text[i] = NL /\ dec.hn)})

\* C29: every BasicParseError a Base64 / Base64Url decoder produces has a
\* position no greater than the number of characters read on the reported
\* line plus one; the position computed for a symbol found after padding
\* does not wrap below zero, also when a newline lies between the padding
\* and the symbol.
C29_ErrorPositionBound ==
    (dec.phase = "done" /\ dec.codec \in Codecs64 /\ dec.d.status = "error")
        => DecErrPos <= C29_LineChars + 1

====
